---- MODULE Spec2Model ----
(***************************************************************************)
(* Atlas project registry: path resolution (registry.py) and the file     *)
(* tools built on it (server.py).                                          *)
(*                                                                         *)
(* A path string is modelled by its pathlib parts: a sequence of segment   *)
(* names whose first element is "/" when the string is absolute and "~"    *)
(* when it starts with the home-directory marker.  The empty string is the *)
(* empty sequence.  A canonical path is an absolute sequence without ".."  *)
(* and without symlinks, exactly like Path.parts of a resolved Path.       *)
(*                                                                         *)
(* The two parsers of registry.py (parse_registry, _parse_project_yaml)    *)
(* are modelled line by line: a text is the sequence of its lines, a line  *)
(* is a string, and one step of a parser is one iteration of its loop.     *)
(***************************************************************************)
EXTENDS Naturals, Integers, Sequences, FiniteSets, TLC

VARIABLES
    fs,        \* the filesystem: [dirs, files, links]
    projects,  \* what get_all_projects() returns: a sequence of project dicts
    call,      \* the last call made: [op, slug, arg, pattern, max_results]
    result,    \* what that call returned or raised
    text,      \* the file a parser reads: [is_file, lines], lines as splitlines() gives them
    frame      \* the local variables of the parser loop that is running

vars == <<fs, projects, call, result, text, frame>>

----------------------------------------------------------------------------
(* Bounds of the model *)

MaxRelLen == 3        \* longest relative path / glob pattern, in segments
MaxProjects == 2      \* longest registry explored by find_project_for_path

----------------------------------------------------------------------------
(* The environment: home directory, working directory, filesystem *)

Root == <<"/">>
Home == <<"/", "home", "dev">>
Cwd == <<"/", "home">>

WidgetRoot == <<"/", "home", "dev", "widget">>

FsDirs ==
    { Root, <<"/", "home">>, Home, WidgetRoot,
      WidgetRoot \o <<"src">>, WidgetRoot \o <<"src", "lib">>,
      WidgetRoot \o <<"build">>,
      Home \o <<"widget-docs">>, <<"/", "etc">>,
      <<"/", "a">>, <<"/", "a", "b">>, Home \o <<"x">> }

FsFiles ==
    { WidgetRoot \o <<"src", "main.py">>,
      WidgetRoot \o <<"src", "lib", "main.py">>,
      WidgetRoot \o <<"build", "main.py">>,
      WidgetRoot \o <<"big.log">>,
      Home \o <<"widget-docs", "main.py">>,
      <<"/", "etc", "passwd">>, <<"/", "etc", "main.py">> }

\* Symbolic links, location :> absolute target.  The table has no loop.
FsLinkTable ==
    (WidgetRoot \o <<"link">>) :> <<"/", "etc">>
    @@ (WidgetRoot \o <<"deep">>) :> (WidgetRoot \o <<"src", "lib">>)
    @@ (WidgetRoot \o <<"flink">>) :> <<"/", "etc", "passwd">>
    @@ (WidgetRoot \o <<"ext.py">>) :> <<"/", "etc", "main.py">>
    @@ (Home \o <<"wlink">>) :> WidgetRoot
    @@ <<"/", "l">> :> <<"/", "a", "b">>

NoLinks == [p \in {} |-> Root]

FsChoices ==
    { [dirs |-> FsDirs, files |-> FsFiles, links |-> NoLinks],
      [dirs |-> FsDirs, files |-> FsFiles, links |-> FsLinkTable] }

----------------------------------------------------------------------------
(* pathlib *)

Parent(p) == IF Len(p) <= 1 THEN p ELSE SubSeq(p, 1, Len(p) - 1)

\* os.path.realpath, non-strict: ".." pops the path resolved so far, a symlink
\* is replaced by its target, a name that does not exist is kept.
RECURSIVE Walk(_, _)
Walk(cur, rest) ==
    IF rest = <<>> THEN cur
    ELSE LET seg == Head(rest)
             cand == Append(cur, seg)
         IN  IF seg = ".." THEN Walk(Parent(cur), Tail(rest))
             ELSE IF cand \in DOMAIN fs.links
                  THEN Walk(Root, Tail(fs.links[cand]) \o Tail(rest))
                  ELSE Walk(cand, Tail(rest))

IsAbsolute(p) == p # <<>> /\ Head(p) = "/"

\* Path(p).resolve(): a relative path is taken from the working directory.
Resolve(p) ==
    IF IsAbsolute(p) THEN Walk(Root, Tail(p)) ELSE Walk(Root, Tail(Cwd) \o p)

\* root / relative: an absolute right operand replaces the left one.
JoinPath(root, rel) == IF IsAbsolute(rel) THEN rel ELSE root \o rel

\* str(target).startswith(str(root)): the last segment of root only has to
\* be a prefix of the corresponding segment of target.
NamePrefix(a, b) == a = b \/ <<a, b>> \in { <<"widget", "widget-docs">> }

IsRelativeTo_StrPrefix(target, root) ==
    /\ Len(root) <= Len(target)
    /\ SubSeq(target, 1, Len(root) - 1) = SubSeq(root, 1, Len(root) - 1)
    /\ NamePrefix(root[Len(root)], target[Len(root)])

\* PurePath.is_relative_to / relative_to: root's parts are a prefix of target's.
IsRelativeTo(target, root) ==
    Len(root) <= Len(target) /\ SubSeq(target, 1, Len(root)) = root

IsDir(p) == p \in fs.dirs

----------------------------------------------------------------------------
(* registry.py *)

ExpandPath_NoHome(p) == p

\* expand_path: "~" or "~/..." is expanded, anything else is left alone.
ExpandPath(p) ==
    IF p # <<>> /\ Head(p) = "~" THEN Home \o Tail(p) ELSE p

Project(slug, path, aps) ==
    [slug |-> slug, path |-> path, repo |-> "", additional_paths |-> aps]

\* find_project_by_slug: index of the first project with that slug, 0 for None.
FindProjectBySlug(slug) ==
    IF \E i \in 1..Len(projects) : projects[i].slug = slug
    THEN CHOOSE i \in 1..Len(projects) :
            /\ projects[i].slug = slug
            /\ \A j \in 1..(i - 1) : projects[j].slug # slug
    ELSE 0

NoCall == [op |-> "init", slug |-> "", arg |-> <<>>, pattern |-> "", max_results |-> 0]

\* the shape of every result: what was returned (path, idx, files, matches,
\* truncated), the error raised or reported (err), and the canonical
\* locations of the files whose content was read (read)
NoResult ==
    [kind |-> "init", err |-> "", path |-> <<>>, idx |-> 0, read |-> {},
     files |-> <<>>, matches |-> <<>>, truncated |-> FALSE]

\* no file is being parsed, no parser loop is running
NoText == [is_file |-> FALSE, lines |-> <<>>]
NoFrame == [pos |-> 0]

Raised(kind) == [NoResult EXCEPT !.kind = "error", !.err = kind]
Returned(p) == [NoResult EXCEPT !.kind = "path", !.path = p]

\* a boundary check made before the root is known to exist
ResolveProjectPath_BoundaryBeforeDir(slug, relative_path) ==
    LET i == FindProjectBySlug(slug)
    IN  IF i = 0 THEN Raised("ProjectNotFound")
        ELSE IF projects[i].path = <<>> THEN Raised("MissingPath")
        ELSE LET project_root == Resolve(ExpandPath(projects[i].path))
                 target == Resolve(JoinPath(project_root, relative_path))
             IN  IF ~IsRelativeTo(target, project_root)
                 THEN Raised("PathBoundaryViolation")
                 ELSE IF ~IsDir(project_root) THEN Raised("InvalidPath")
                 ELSE Returned(target)

\* a boundary check made on the joined path before it is resolved
ResolveProjectPath_CheckBeforeResolve(slug, relative_path) ==
    LET i == FindProjectBySlug(slug)
    IN  IF i = 0 THEN Raised("ProjectNotFound")
        ELSE IF projects[i].path = <<>> THEN Raised("MissingPath")
        ELSE LET project_root == Resolve(ExpandPath(projects[i].path))
                 joined == JoinPath(project_root, relative_path)
             IN  IF ~IsDir(project_root) THEN Raised("InvalidPath")
                 ELSE IF ~IsRelativeTo(joined, project_root)
                      THEN Raised("PathBoundaryViolation")
                      ELSE Returned(Resolve(joined))

\* resolve_project_path
ResolveProjectPath(slug, relative_path) ==
    LET i == FindProjectBySlug(slug)
    IN  IF i = 0 THEN Raised("ProjectNotFound")
        ELSE IF projects[i].path = <<>> THEN Raised("MissingPath")
        ELSE LET project_root == Resolve(ExpandPath(projects[i].path))
                 target == Resolve(JoinPath(project_root, relative_path))
             IN  IF ~IsDir(project_root) THEN Raised("InvalidPath")
                 ELSE IF ~IsRelativeTo(target, project_root)
                      THEN Raised("PathBoundaryViolation")
                      ELSE Returned(target)

NoProject == [NoResult EXCEPT !.kind = "none"]
FoundProject(i) ==
    IF i = 0 THEN NoProject ELSE [NoResult EXCEPT !.kind = "project", !.idx = i]

\* find_project_for_path, the loop over proj["additional_paths"] of record i:
\* ret says that an additional path equal to the target returned the record.
RECURSIVE AdditionalPathsLoop(_, _, _, _, _, _)
AdditionalPathsLoop(aps, k, target, i, best_match, best_depth) ==
    IF k > Len(aps)
    THEN [ret |-> FALSE, best_match |-> best_match, best_depth |-> best_depth]
    ELSE LET ap == Resolve(ExpandPath(aps[k]))
         IN  IF target = ap
             THEN [ret |-> TRUE, best_match |-> i, best_depth |-> best_depth]
             ELSE IF IsRelativeTo(target, ap) /\ Len(ap) > best_depth
                  THEN AdditionalPathsLoop(aps, k + 1, target, i, i, Len(ap))
                  ELSE AdditionalPathsLoop(aps, k + 1, target, i, best_match, best_depth)

\* a loop in which the first ancestor found wins, whatever its depth
RECURSIVE ProjectsLoop_FirstAncestor(_, _, _, _, _)
ProjectsLoop_FirstAncestor(projs, i, target, best_match, best_depth) ==
    IF i > Len(projs) THEN best_match
    ELSE IF projs[i].path = <<>>
         THEN ProjectsLoop_FirstAncestor(projs, i + 1, target, best_match, best_depth)
    ELSE LET p == Resolve(ExpandPath(projs[i].path))
             child == IsRelativeTo(target, p) /\ best_match = 0
             match1 == IF child THEN i ELSE best_match
             depth1 == IF child THEN Len(p) ELSE best_depth
             inner == AdditionalPathsLoop(projs[i].additional_paths, 1, target, i,
                                          match1, depth1)
         IN  IF target = p THEN i
             ELSE IF inner.ret THEN i
             ELSE ProjectsLoop_FirstAncestor(projs, i + 1, target, inner.best_match,
                                             inner.best_depth)

\* find_project_for_path, the loop over the projects from record i on;
\* the value is the index of the record returned, 0 for None.
RECURSIVE ProjectsLoop(_, _, _, _, _)
ProjectsLoop(projs, i, target, best_match, best_depth) ==
    IF i > Len(projs) THEN best_match
    ELSE IF projs[i].path = <<>>
         THEN ProjectsLoop(projs, i + 1, target, best_match, best_depth)
    ELSE LET p == Resolve(ExpandPath(projs[i].path))
             child == IsRelativeTo(target, p) /\ Len(p) > best_depth
             match1 == IF child THEN i ELSE best_match
             depth1 == IF child THEN Len(p) ELSE best_depth
             inner == AdditionalPathsLoop(projs[i].additional_paths, 1, target, i,
                                          match1, depth1)
         IN  IF target = p THEN i
             ELSE IF inner.ret THEN i
             ELSE ProjectsLoop(projs, i + 1, target, inner.best_match, inner.best_depth)

\* find_project_for_path
FindProjectForPath(projs, target_path) ==
    IF projs = <<>> THEN 0
    ELSE ProjectsLoop(projs, 1, Resolve(target_path), 0, -1)

----------------------------------------------------------------------------
(* Inputs *)

RECURSIVE SeqsUpTo(_, _)
SeqsUpTo(S, n) ==
    IF n = 0 THEN { <<>> }
    ELSE LET shorter == SeqsUpTo(S, n - 1)
         IN  shorter \cup { Append(s, x) : s \in shorter, x \in S }

RelSegs == { "..", "src", "link", "deep", "flink", "etc", "passwd", "widget", "widget-docs" }

\* relative paths handed to resolve_project_path: every sequence of segments
\* up to MaxRelLen, and some absolute-looking ones
Relatives ==
    SeqsUpTo(RelSegs, MaxRelLen)
    \cup { Root, <<"/", "etc", "passwd">>, WidgetRoot \o <<"src">>,
           Home \o <<"wlink", "src">>, <<"..", "..", "..", "etc", "passwd">>,
           <<"src", "..", "..", "etc", "passwd">> }

Slugs == { "widget", "ghost" }

RootPaths ==
    { WidgetRoot, <<"~", "widget">>, Home \o <<"wlink">>, <<>>,
      Home \o <<"missing">>, <<"/", "etc", "passwd">> }

ResolveRegistries ==
    { <<>>, << Project("widget", WidgetRoot, <<>>) >> }
    \cup { << Project("docs", Home \o <<"widget-docs">>, <<>>),
              Project("widget", p, << Home \o <<"widget-docs">> >>) >> : p \in RootPaths }
    \cup { <<>> }

----------------------------------------------------------------------------
(* Specification of resolve_project_path *)

InitResolve ==
    /\ fs \in FsChoices
    /\ projects \in ResolveRegistries
    /\ call = NoCall
    /\ result = NoResult
    /\ text = NoText
    /\ frame = NoFrame

\* Every entry point re-reads the registry and keeps nothing between calls
\* (the module has no state of its own), so a behaviour is one environment
\* followed by one call.
Idle == call.op = "init"

CallResolveProjectPath ==
    /\ Idle
    /\ \E slug \in Slugs, rel \in Relatives :
        /\ call' = [NoCall EXCEPT !.op = "resolve_project_path", !.slug = slug, !.arg = rel]
        /\ result' = ResolveProjectPath(slug, rel)
        /\ UNCHANGED <<fs, projects, text, frame>>

NextResolve == CallResolveProjectPath

SpecResolve == InitResolve /\ [][NextResolve]_vars

----------------------------------------------------------------------------
(* Specification of find_project_for_path *)

PathA == <<"/", "a">>
PathAB == <<"/", "a", "b">>
PathABC == <<"/", "a", "b", "c">>
PathL == <<"/", "l">>
TildeX == <<"~", "x">>

FindPaths == { <<>>, PathA, PathAB, PathL, TildeX }

FindAdditional == { <<>>, <<PathAB>>, <<PathABC>>, <<TildeX, PathA>> }

FindRecords == { Project("", p, aps) : p \in FindPaths, aps \in FindAdditional }

SlugAt(i) == IF i = 1 THEN "alpha" ELSE IF i = 2 THEN "beta" ELSE "gamma"

\* every registry of at most MaxProjects records, in every order
FindRegistries ==
    { [i \in 1..Len(s) |-> [s[i] EXCEPT !.slug = SlugAt(i)]] :
        s \in SeqsUpTo(FindRecords, MaxProjects) }

Targets ==
    { PathA, PathAB, PathABC, PathABC \o <<"d">>, PathL \o <<"c">>, <<"/", "z">>,
      TildeX, TildeX \o <<"y">>, Home \o <<"x">>, Home \o <<"x", "y">>,
      <<"dev", "x">> }

InitFind ==
    /\ fs \in FsChoices
    /\ projects \in FindRegistries
    /\ call = NoCall
    /\ result = NoResult
    /\ text = NoText
    /\ frame = NoFrame

CallFindProjectForPath ==
    /\ Idle
    /\ \E target_path \in Targets :
        /\ call' = [NoCall EXCEPT !.op = "find_project_for_path", !.arg = target_path]
        /\ result' = FoundProject(FindProjectForPath(projects, target_path))
        /\ UNCHANGED <<fs, projects, text, frame>>

NextFind == CallFindProjectForPath

SpecFind == InitFind /\ [][NextFind]_vars

----------------------------------------------------------------------------
(* server.py: the file tools *)

MAX_FILE_SIZE == 1048576
MAX_GREP_FILES == 10000
SKIP_DIRS ==
    { ".git", "node_modules", "__pycache__", ".venv", "venv", ".tox",
      ".mypy_cache", ".pytest_cache", ".ruff_cache", "dist", "build" }

\* names whose suffix is a key of _EXT_TO_LANG
SourceNames == { "main.py", "ext.py" }

\* what the operating system finds at a path (stat): every component must
\* exist, symlinks are followed; <<>> when there is nothing there
RECURSIVE StrictWalk(_, _)
StrictWalk(cur, rest) ==
    IF cur = <<>> \/ rest = <<>> THEN cur
    ELSE IF cur \notin fs.dirs THEN <<>>
    ELSE LET seg == Head(rest)
             cand == Append(cur, seg)
         IN  IF seg = ".." THEN StrictWalk(Parent(cur), Tail(rest))
             ELSE IF cand \in DOMAIN fs.links
                  THEN StrictWalk(StrictWalk(Root, Tail(fs.links[cand])), Tail(rest))
             ELSE IF cand \in fs.dirs \cup fs.files
                  THEN StrictWalk(cand, Tail(rest))
             ELSE <<>>

Stat(q) == StrictWalk(Root, Tail(q))
IsFile(q) == Stat(q) \in fs.files
IsDirAt(q) == Stat(q) \in fs.dirs
Exists(q) == Stat(q) # <<>>

\* os.scandir: the names in a directory, symlinks included
ScanDir(q) ==
    LET d == Stat(q)
    IN  { e[Len(e)] : e \in { x \in fs.dirs \cup fs.files \cup DOMAIN fs.links :
                                  Len(x) = Len(d) + 1 /\ SubSeq(x, 1, Len(d)) = d } }

\* Path.glob: a literal segment (".." too) is kept when it exists, "*" lists
\* the directory; every segment but the last must be a directory.  The paths
\* produced are not resolved.
RECURSIVE Glob(_, _)
Glob(parent, pattern) ==
    IF pattern = <<>> THEN { parent }
    ELSE LET seg == Head(pattern)
             names == IF seg = "*" THEN ScanDir(parent) ELSE { seg }
             kept == { n \in names :
                         IF Len(pattern) = 1 THEN Exists(Append(parent, n))
                         ELSE IsDirAt(Append(parent, n)) }
         IN  UNION { Glob(Append(parent, n), Tail(pattern)) : n \in kept }

\* Path.rglob("*"): everything below a directory; symlinked directories are
\* listed but not entered.
RECURSIVE RGlob(_)
RGlob(d) ==
    LET entries == { Append(d, n) : n \in ScanDir(d) }
    IN  IF d \notin fs.dirs THEN {}
        ELSE entries \cup UNION { RGlob(e) : e \in entries \cap fs.dirs }

\* the order of str on the names in use
NameOrder ==
    << "..", "a", "b", "big.log", "build", "deep", "dev", "etc", "ext.py", "flink",
       "home", "l", "lib", "link", "main.py", "passwd", "src", "widget",
       "widget-docs", "wlink", "x" >>

Rank(n) == CHOOSE k \in 1..Len(NameOrder) : NameOrder[k] = n

\* Path.__lt__: parts compared one by one
RECURSIVE PathLess(_, _)
PathLess(p, q) ==
    IF q = <<>> THEN FALSE
    ELSE IF p = <<>> THEN TRUE
    ELSE IF Head(p) = Head(q) THEN PathLess(Tail(p), Tail(q))
    ELSE Rank(Head(p)) < Rank(Head(q))

RECURSIVE Sorted(_)
Sorted(S) ==
    IF S = {} THEN <<>>
    ELSE LET least == CHOOSE p \in S : \A q \in S \ {p} : PathLess(p, q)
         IN  <<least>> \o Sorted(S \ {least})

\* filepath.relative_to(project_root), for a path that starts with the root
RelativeTo(filepath, project_root) ==
    SubSeq(filepath, Len(project_root) + 1, Len(filepath))

InSkipDir(rel) == \E k \in 1..Len(rel) : rel[k] \in SKIP_DIRS

\* file contents, by canonical location
FileLines(f) ==
    IF f[Len(f)] = "main.py" THEN << "def main", "pass", "main()" >>
    ELSE IF f[Len(f)] = "passwd" THEN << "root:x", "dev:x" >>
    ELSE << "log" >>

FileSize(f) == IF f[Len(f)] = "big.log" THEN MAX_FILE_SIZE + 1 ELSE Len(FileLines(f))

\* re.compile / regex.search for the patterns in use
ValidRegex(pattern) == pattern # "("
LineMatches(pattern, line) ==
    \/ pattern = "main" /\ line \in { "def main", "main()" }
    \/ pattern = "."

\* Path(proj["path"]).expanduser()
ExpandUser(p) == IF p # <<>> /\ Head(p) = "~" THEN Home \o Tail(p) ELSE p

ToolError(kind) == [NoResult EXCEPT !.kind = "error", !.err = kind]

\* atlas_read_file
AtlasReadFile(project, path) ==
    LET r == ResolveProjectPath(project, path)
    IN  IF r.kind = "error" THEN ToolError(r.err)
        ELSE IF ~IsFile(r.path) THEN ToolError("FileNotFound")
        ELSE IF FileSize(r.path) > MAX_FILE_SIZE THEN ToolError("FileTooLarge")
        ELSE [NoResult EXCEPT !.kind = "content", !.path = path, !.read = { r.path }]

\* atlas_grep, the loop over the lines of one file
RECURSIVE GrepLines(_, _, _, _, _, _)
GrepLines(lines, k, pattern, rel, matches, max_results) ==
    IF k > Len(lines) THEN [matches |-> matches, full |-> FALSE]
    ELSE IF LineMatches(pattern, lines[k])
         THEN LET more == Append(matches, [file |-> rel, line |-> k])
              IN  IF Len(more) >= max_results
                  THEN [matches |-> more, full |-> TRUE]
                  ELSE GrepLines(lines, k + 1, pattern, rel, more, max_results)
         ELSE GrepLines(lines, k + 1, pattern, rel, matches, max_results)

\* atlas_grep, the loop over the files
RECURSIVE GrepFiles(_, _, _, _, _, _, _, _)
GrepFiles(files, n, project_root, pattern, max_results, matches, files_scanned, read) ==
    IF n > Len(files)
    THEN [NoResult EXCEPT !.kind = "grep", !.matches = matches, !.read = read]
    ELSE LET filepath == files[n]
             rel == RelativeTo(filepath, project_root)
             scan == GrepLines(FileLines(Stat(filepath)), 1, pattern, rel, matches,
                               max_results)
         IN  IF ~IsFile(filepath) \/ InSkipDir(rel)
             THEN GrepFiles(files, n + 1, project_root, pattern, max_results, matches,
                            files_scanned, read)
             ELSE IF files_scanned + 1 > MAX_GREP_FILES
             THEN [NoResult EXCEPT !.kind = "grep", !.matches = matches,
                                   !.truncated = TRUE, !.read = read]
             ELSE IF scan.full
             THEN [NoResult EXCEPT !.kind = "grep", !.matches = scan.matches,
                                   !.truncated = TRUE,
                                   !.read = read \cup { Stat(filepath) }]
             ELSE GrepFiles(files, n + 1, project_root, pattern, max_results,
                            scan.matches, files_scanned + 1,
                            read \cup { Stat(filepath) })

\* atlas_grep
AtlasGrep(project, pattern, file_glob, max_results) ==
    LET i == FindProjectBySlug(project)
        project_root == Resolve(ExpandUser(projects[i].path))
        files == IF file_glob # <<>>
                 THEN Sorted(Glob(project_root, file_glob))
                 ELSE Sorted({ f \in RGlob(project_root) : IsFile(f) })
    IN  IF i = 0 THEN ToolError("ProjectNotFound")
        ELSE IF ~IsDir(project_root) THEN ToolError("InvalidPath")
        ELSE IF ~ValidRegex(pattern) THEN ToolError("InvalidRegex")
        ELSE GrepFiles(files, 1, project_root, pattern, max_results, <<>>, 0, {})

\* atlas_glob, the loop over the files
RECURSIVE GlobFiles(_, _, _, _)
GlobFiles(files, n, project_root, results) ==
    IF n > Len(files) THEN results
    ELSE LET f == files[n]
             rel == RelativeTo(f, project_root)
         IN  IF \/ ~IsFile(f)
                \/ InSkipDir(rel)
                \/ ~IsRelativeTo(Resolve(f), project_root)
             THEN GlobFiles(files, n + 1, project_root, results)
             ELSE GlobFiles(files, n + 1, project_root, Append(results, rel))

\* atlas_glob; Path.glob refuses the empty pattern
AtlasGlob(project, pattern) ==
    LET i == FindProjectBySlug(project)
        project_root == Resolve(ExpandUser(projects[i].path))
    IN  IF i = 0 THEN ToolError("ProjectNotFound")
        ELSE IF ~IsDir(project_root) THEN ToolError("InvalidPath")
        ELSE IF pattern = <<>> THEN Raised("ValueError")
        ELSE [NoResult EXCEPT !.kind = "glob",
                !.files = GlobFiles(Sorted(Glob(project_root, pattern)), 1,
                                    project_root, <<>>)]

\* _iter_source_files
IterSourceFiles(root, project_root) ==
    Sorted({ f \in RGlob(root) :
                /\ IsFile(f)
                /\ f[Len(f)] \in SourceNames
                /\ ~InSkipDir(RelativeTo(f, project_root)) })

\* _extract_symbols_from_file: whether the file has symbol definitions
HasSymbols(f) == \E k \in 1..Len(FileLines(f)) : FileLines(f)[k] = "def main"

\* atlas_symbols_overview, the loop over the files
RECURSIVE OverviewFiles(_, _, _, _, _, _)
OverviewFiles(file_list, n, project_root, files_scanned, found, read) ==
    IF n > Len(file_list) \/ files_scanned + 1 > MAX_GREP_FILES
    THEN [NoResult EXCEPT !.kind = "overview", !.files = found, !.read = read]
    ELSE LET filepath == file_list[n]
         IN  OverviewFiles(file_list, n + 1, project_root, files_scanned + 1,
                 IF HasSymbols(Stat(filepath))
                 THEN Append(found, RelativeTo(filepath, project_root))
                 ELSE found,
                 read \cup { Stat(filepath) })

\* atlas_symbols_overview
AtlasSymbolsOverview(project, path) ==
    LET i == FindProjectBySlug(project)
        project_root == Resolve(ExpandUser(projects[i].path))
        target == IF path # <<>> THEN Resolve(JoinPath(project_root, path))
                  ELSE project_root
        file_list == IF IsFile(target)
                     THEN (IF target[Len(target)] \in SourceNames
                           THEN <<target>> ELSE <<>>)
                     ELSE IterSourceFiles(target, project_root)
    IN  IF i = 0 THEN ToolError("ProjectNotFound")
        ELSE IF ~IsDir(project_root) THEN ToolError("InvalidPath")
        ELSE IF ~IsRelativeTo(target, project_root)
             THEN ToolError("PathBoundaryViolation")
        ELSE OverviewFiles(file_list, 1, project_root, 0, <<>>, {})

----------------------------------------------------------------------------
(* Specification of the file tools *)

GlobSegs == { "..", "*", "src", "link", "widget-docs" }
Globs == SeqsUpTo(GlobSegs, MaxRelLen)

ToolRelatives ==
    SeqsUpTo({ "..", "src", "link", "flink", "ext.py", "main.py", "big.log" }, 2)
    \cup { <<"..", "..", "..", "etc", "passwd">>, <<"..", "..", "etc">>,
           <<"/", "etc", "passwd">> }

Regexes == { "main", "zzz", "(" }
MaxResultsInputs == { -1, 0, 1, 100 }

ToolRegistries ==
    { << Project("widget", WidgetRoot, <<>>) >>,
      << Project("docs", Home \o <<"widget-docs">>, <<>>),
         Project("widget", <<"~", "wlink">>, <<>>) >> }

InitTools ==
    /\ fs \in FsChoices
    /\ projects \in ToolRegistries
    /\ call = NoCall
    /\ result = NoResult
    /\ text = NoText
    /\ frame = NoFrame

CallAtlasReadFile ==
    /\ Idle
    /\ \E project \in Slugs, path \in ToolRelatives :
        /\ call' = [NoCall EXCEPT !.op = "atlas_read_file", !.slug = project, !.arg = path]
        /\ result' = AtlasReadFile(project, path)
        /\ UNCHANGED <<fs, projects, text, frame>>

CallAtlasGrep ==
    /\ Idle
    /\ \E project \in Slugs, pattern \in Regexes, file_glob \in Globs,
          max_results \in MaxResultsInputs :
        /\ call' = [op |-> "atlas_grep", slug |-> project, arg |-> file_glob,
                    pattern |-> pattern, max_results |-> max_results]
        /\ result' = AtlasGrep(project, pattern, file_glob, max_results)
        /\ UNCHANGED <<fs, projects, text, frame>>

CallAtlasGlob ==
    /\ Idle
    /\ \E project \in Slugs, pattern \in Globs :
        /\ call' = [NoCall EXCEPT !.op = "atlas_glob", !.slug = project, !.arg = pattern]
        /\ result' = AtlasGlob(project, pattern)
        /\ UNCHANGED <<fs, projects, text, frame>>

CallAtlasSymbolsOverview ==
    /\ Idle
    /\ \E project \in Slugs, path \in ToolRelatives :
        /\ call' = [NoCall EXCEPT !.op = "atlas_symbols_overview", !.slug = project,
                                  !.arg = path]
        /\ result' = AtlasSymbolsOverview(project, path)
        /\ UNCHANGED <<fs, projects, text, frame>>

NextTools ==
    \/ CallAtlasReadFile
    \/ CallAtlasGrep
    \/ CallAtlasGlob
    \/ CallAtlasSymbolsOverview

SpecTools == InitTools /\ [][NextTools]_vars

----------------------------------------------------------------------------
(* Properties of resolve_project_path *)

Segments(p) == { p[k] : k \in 1..Len(p) }

\* p equals root or lies below it, segment by segment
EqualsOrDescendant(p, root) == \E k \in 0..Len(p) : SubSeq(p, 1, k) = root

\* the record a slug names: the first one carrying it
RecordFor(slug) ==
    CHOOSE i \in 1..Len(projects) :
        projects[i].slug = slug /\ \A j \in 1..(i - 1) : projects[j].slug # slug

KnownSlug(slug) == \E i \in 1..Len(projects) : projects[i].slug = slug

\* the canonical primary path of a record
CanonicalRoot(i) == Resolve(ExpandPath(projects[i].path))

\* where a relative path leads when its segments are followed one by one
\* from the canonical root (from "/" when it is absolute-looking)
Destination(root, rel) ==
    IF IsAbsolute(rel) THEN Walk(Root, Tail(rel)) ELSE Walk(root, rel)

Resolved == call.op = "resolve_project_path"

\* C1: a path returned by resolve_project_path, once symlinks and ".." are
\* resolved, equals or is a segment-wise descendant of the canonical primary
\* path of the record for the slug, whatever the relative input.
C1_ReturnedPathInsideRoot ==
    (Resolved /\ result.kind = "path") =>
        /\ KnownSlug(call.slug)
        /\ EqualsOrDescendant(Resolve(result.path), CanonicalRoot(RecordFor(call.slug)))

\* a path is returned for a relative that goes through a symlink and "..":
\* deep -> src/lib, so deep/../.. is the root itself
C1_Witness ==
    /\ Resolved /\ result.kind = "path"
    /\ call.arg = <<"deep", "..", "..">>
    /\ fs.links # NoLinks
    /\ result.path = WidgetRoot

\* the sibling whose name starts with the root's name is refused
C1_SiblingRefused ==
    (Resolved /\ KnownSlug(call.slug) /\ call.arg = <<"..", "widget-docs", "src">>)
        => result.kind = "error"

\* a record has a project root when its primary path is configured and
\* resolves to an existing directory
HasRoot(slug) ==
    /\ KnownSlug(slug)
    /\ projects[RecordFor(slug)].path # <<>>
    /\ CanonicalRoot(RecordFor(slug)) \in fs.dirs

\* C2: for a record that has a project root and a relative path whose ".."
\* segments lead out of that root, resolve_project_path fails with the
\* boundary-violation error and returns no path.
C2_TraversalRefused ==
    (/\ Resolved
     /\ HasRoot(call.slug)
     /\ ".." \in Segments(call.arg)
     /\ ~EqualsOrDescendant(Destination(CanonicalRoot(RecordFor(call.slug)), call.arg),
                            CanonicalRoot(RecordFor(call.slug))))
        => result = Raised("PathBoundaryViolation")

C2_Witness ==
    /\ Resolved
    /\ HasRoot(call.slug)
    /\ call.arg = <<"src", "..", "..", "etc", "passwd">>
    /\ result = Raised("PathBoundaryViolation")

\* C9: resolve_project_path decides in a fixed order: unknown slug, then no
\* primary path, then a primary path that is no existing directory, then a
\* target outside the root; a target inside the root is returned whether or
\* not it exists.
C9_ErrorOrder ==
    Resolved =>
        result =
            IF ~KnownSlug(call.slug) THEN Raised("ProjectNotFound")
            ELSE IF projects[RecordFor(call.slug)].path = <<>> THEN Raised("MissingPath")
            ELSE IF CanonicalRoot(RecordFor(call.slug)) \notin fs.dirs
                 THEN Raised("InvalidPath")
            ELSE IF ~EqualsOrDescendant(
                        Destination(CanonicalRoot(RecordFor(call.slug)), call.arg),
                        CanonicalRoot(RecordFor(call.slug)))
                 THEN Raised("PathBoundaryViolation")
            ELSE Returned(Destination(CanonicalRoot(RecordFor(call.slug)), call.arg))

\* a target inside the root that is not on disk is returned
C9_Witness ==
    /\ Resolved /\ result.kind = "path"
    /\ result.path \notin (fs.dirs \cup fs.files)
    /\ Len(result.path) > Len(WidgetRoot)

\* each of the four errors occurs, the later ones with a relative path that
\* would also fail the later checks
C9_WitnessInvalidBeforeBoundary ==
    /\ Resolved /\ result = Raised("InvalidPath")
    /\ call.arg = <<"..", "..">>

----------------------------------------------------------------------------
(* Properties of the file tools *)

ToolCalled ==
    call.op \in { "atlas_read_file", "atlas_grep", "atlas_glob", "atlas_symbols_overview" }

\* the canonical locations of the files a result reports, given by their
\* path relative to the root
Reported(root) ==
    { Stat(root \o result.files[k]) : k \in 1..Len(result.files) }
    \cup { Stat(root \o result.matches[k].file) : k \in 1..Len(result.matches) }

\* C3: the file-reading, search and symbol tools read and report only files
\* whose canonical location equals or lies below the canonical project root
\* of the slug they were given.
C3_ToolsStayInsideRoot ==
    (ToolCalled /\ HasRoot(call.slug)) =>
        \A f \in result.read \cup Reported(CanonicalRoot(RecordFor(call.slug))) :
            EqualsOrDescendant(f, CanonicalRoot(RecordFor(call.slug)))

\* C3 for atlas_read_file and atlas_glob, which check the resolved location
C3_ReadFileAndGlobStayInside ==
    (call.op \in { "atlas_read_file", "atlas_glob" } /\ HasRoot(call.slug)) =>
        \A f \in result.read \cup Reported(CanonicalRoot(RecordFor(call.slug))) :
            EqualsOrDescendant(f, CanonicalRoot(RecordFor(call.slug)))

\* C3 for atlas_grep when there is no symlink on disk and the glob has no ".."
C3_GrepPlainStaysInside ==
    (/\ call.op = "atlas_grep" /\ HasRoot(call.slug)
     /\ fs.links = NoLinks /\ ".." \notin Segments(call.arg)) =>
        \A f \in result.read \cup Reported(CanonicalRoot(RecordFor(call.slug))) :
            EqualsOrDescendant(f, CanonicalRoot(RecordFor(call.slug)))

\* C3 for atlas_symbols_overview when there is no symlink on disk
C3_OverviewPlainStaysInside ==
    (call.op = "atlas_symbols_overview" /\ HasRoot(call.slug) /\ fs.links = NoLinks) =>
        \A f \in result.read \cup Reported(CanonicalRoot(RecordFor(call.slug))) :
            EqualsOrDescendant(f, CanonicalRoot(RecordFor(call.slug)))

\* C3 fails in atlas_grep without any symlink, through ".." in file_glob
C3_GrepGlobWithDotDot ==
    ~(/\ call.op = "atlas_grep" /\ fs.links = NoLinks
      /\ call.arg = <<"..", "widget-docs", "*">>
      /\ (Home \o <<"widget-docs", "main.py">>) \in result.read)

\* C3 fails in atlas_symbols_overview through a symlinked source file
C3_OverviewSymlink ==
    ~(/\ call.op = "atlas_symbols_overview"
      /\ <<"/", "etc", "main.py">> \in result.read)

----------------------------------------------------------------------------
(* Properties of find_project_for_path *)

Found == call.op = "find_project_for_path"

Recs == 1..Len(projects)

\* canonicalize of the path resolver: home marker expanded, then resolved
Canonical(p) == Resolve(ExpandPath(p))

HasPrimary(i) == projects[i].path # <<>>

AdditionalRoots(i) ==
    { Canonical(projects[i].additional_paths[k]) :
        k \in 1..Len(projects[i].additional_paths) }

\* the candidate roots of record i: its primary path when configured, and
\* every additional path
RootsOf(i) ==
    (IF HasPrimary(i) THEN { Canonical(projects[i].path) } ELSE {}) \cup AdditionalRoots(i)

\* the roots of record i that equal the target t or are ancestors of it
MatchingRoots(i, t) == { r \in RootsOf(i) : EqualsOrDescendant(t, r) }

\* the canonical target as find_project_for_path computes it
Target == Resolve(call.arg)

AllHavePrimary == \A i \in Recs : HasPrimary(i)

MinOf(S) == CHOOSE i \in S : \A j \in S : i <= j

\* C4: when record B has the target as its canonical primary path and another
\* record A lists it as an additional path, the record returned is one whose
\* primary path is the target, in either order of A and B.
C4_PrimaryExactWins ==
    (/\ Found
     /\ \E a, b \in Recs :
            /\ a # b
            /\ HasPrimary(b) /\ Canonical(projects[b].path) = Target
            /\ Target \in AdditionalRoots(a))
        => /\ result.kind = "project"
           /\ HasPrimary(result.idx)
           /\ Canonical(projects[result.idx].path) = Target

\* C4, the order in which the code agrees: B before A
C4_HoldsWhenPrimaryFirst ==
    (/\ Found
     /\ Len(projects) = 2
     /\ HasPrimary(1) /\ Canonical(projects[1].path) = Target)
        => result = FoundProject(1)

\* C5: when some record has a root (primary or additional) equal to the
\* target, the record returned is the first record in registry order that
\* has one.
C5_FirstExactMatch ==
    (Found /\ \E i \in Recs : Target \in RootsOf(i))
        => result = FoundProject(MinOf({ i \in Recs : Target \in RootsOf(i) }))

\* C5 for registries in which every record has a primary path
C5_FirstExactMatchWithPrimaries ==
    (Found /\ AllHavePrimary /\ \E i \in Recs : Target \in RootsOf(i))
        => result = FoundProject(MinOf({ i \in Recs : Target \in RootsOf(i) }))

\* C6: when no root equals the target and some root is an ancestor of it,
\* the record returned has a matching root with the greatest number of
\* segments among all matching roots of all records.
C6_DeepestAncestor ==
    (/\ Found
     /\ \A i \in Recs : Target \notin RootsOf(i)
     /\ \E i \in Recs : MatchingRoots(i, Target) # {})
        => /\ result.kind = "project"
           /\ \E r \in MatchingRoots(result.idx, Target) :
                \A j \in Recs : \A q \in MatchingRoots(j, Target) : Len(q) <= Len(r)

\* C6 for registries in which every record has a primary path
C6_DeepestAncestorWithPrimaries ==
    (/\ Found /\ AllHavePrimary
     /\ \A i \in Recs : Target \notin RootsOf(i)
     /\ \E i \in Recs : MatchingRoots(i, Target) # {})
        => /\ result.kind = "project"
           /\ \E r \in MatchingRoots(result.idx, Target) :
                \A j \in Recs : \A q \in MatchingRoots(j, Target) : Len(q) <= Len(r)

\* C6, the example: A rooted at /a, B at /a/b, target /a/b/c, both orders
C6_Example ==
    (/\ Found /\ call.arg = PathABC /\ Len(projects) = 2
     /\ \E a, b \in Recs :
            /\ projects[a].path = PathA /\ projects[a].additional_paths = <<>>
            /\ projects[b].path = PathAB /\ projects[b].additional_paths = <<>>)
        => projects[result.idx].path = PathAB

\* C7: a record is returned when one of its additional paths matches the
\* target and is deeper than every matching root of every other record,
\* whether or not the record has a primary path.
C7_AdditionalPathIsRoot ==
    Found =>
        \A i \in Recs :
            (\E r \in AdditionalRoots(i) :
                /\ EqualsOrDescendant(Target, r)
                /\ \A j \in Recs \ {i} :
                      \A q \in MatchingRoots(j, Target) : Len(q) < Len(r))
                => result = FoundProject(i)

\* C7 for the records that have a primary path
C7_AdditionalPathIsRootWithPrimary ==
    Found =>
        \A i \in Recs :
            (/\ HasPrimary(i)
             /\ \E r \in AdditionalRoots(i) :
                    /\ EqualsOrDescendant(Target, r)
                    /\ \A j \in Recs \ {i} :
                          \A q \in MatchingRoots(j, Target) : Len(q) < Len(r))
                => result = FoundProject(i)

Matching == { i \in Recs : MatchingRoots(i, Target) # {} }

MaxDepth ==
    LET all == UNION { MatchingRoots(i, Target) : i \in Recs }
    IN  CHOOSE d \in { Len(r) : r \in all } : \A r \in all : Len(r) <= d

Deepest == { i \in Recs : \E r \in MatchingRoots(i, Target) : Len(r) = MaxDepth }

\* C8: the call returns none or one record; none when no root of any record
\* matches the target; and when several records have a matching root of the
\* greatest depth, the first of them in registry order.
C8_OneResultFirstOnTie ==
    Found =>
        /\ result.kind \in { "none", "project" }
        /\ (Matching = {} => result = NoProject)
        /\ (Matching # {} /\ Cardinality(Deepest) >= 2
                => result = FoundProject(MinOf(Deepest)))

\* C8 for registries in which every record has a primary path
C8_OneResultFirstOnTieWithPrimaries ==
    (Found /\ AllHavePrimary) =>
        /\ result.kind \in { "none", "project" }
        /\ (Matching = {} => result = NoProject)
        /\ (Matching # {} /\ Cardinality(Deepest) >= 2
                => result = FoundProject(MinOf(Deepest)))

\* C10: the target is canonicalized like a record root, home marker
\* included: a target that equals or lies below the canonical primary path
\* of some record finds a record.
C10_TargetHomeExpanded ==
    (/\ Found
     /\ \E i \in Recs :
            HasPrimary(i) /\ EqualsOrDescendant(Canonical(call.arg), Canonical(projects[i].path)))
        => result.kind = "project"

\* C10 for targets written without the home marker
C10_TargetWithoutHomeMarker ==
    (/\ Found
     /\ Head(call.arg) # "~"
     /\ \E i \in Recs :
            HasPrimary(i) /\ EqualsOrDescendant(Canonical(call.arg), Canonical(projects[i].path)))
        => result.kind = "project"

----------------------------------------------------------------------------
(* str: the string methods and regular expressions the parsers use.       *)
(* A line is a string; Len, Head, Tail, SubSeq and \o act on strings as   *)
(* they act on sequences of characters.                                   *)

At(s, i) == SubSeq(s, i, i)

\* the characters str.strip() and \s remove
Whitespace == {" ", "\t", "\n", "\r", "\f"}

Lowercase ==
    {"a", "b", "c", "d", "e", "f", "g", "h", "i", "j", "k", "l", "m",
     "n", "o", "p", "q", "r", "s", "t", "u", "v", "w", "x", "y", "z"}

Uppercase ==
    {"A", "B", "C", "D", "E", "F", "G", "H", "I", "J", "K", "L", "M",
     "N", "O", "P", "Q", "R", "S", "T", "U", "V", "W", "X", "Y", "Z"}

Digits == {"0", "1", "2", "3", "4", "5", "6", "7", "8", "9"}

RECURSIVE LStripChars(_, _)
LStripChars(s, chars) ==
    IF Len(s) > 0 /\ Head(s) \in chars THEN LStripChars(Tail(s), chars) ELSE s

RECURSIVE RStripChars(_, _)
RStripChars(s, chars) ==
    IF Len(s) > 0 /\ At(s, Len(s)) \in chars
    THEN RStripChars(SubSeq(s, 1, Len(s) - 1), chars)
    ELSE s

\* s.strip(chars)
StripChars(s, chars) == RStripChars(LStripChars(s, chars), chars)

\* s.rstrip(), s.strip()
RStrip(s) == RStripChars(s, Whitespace)
Strip(s) == StripChars(s, Whitespace)

\* s.startswith(prefix), s.endswith(suffix)
StartsWith(s, prefix) ==
    Len(s) >= Len(prefix) /\ SubSeq(s, 1, Len(prefix)) = prefix
EndsWith(s, suffix) ==
    Len(s) >= Len(suffix) /\ SubSeq(s, Len(s) - Len(suffix) + 1, Len(s)) = suffix

\* s.removeprefix(prefix)
RemovePrefix(s, prefix) ==
    IF StartsWith(s, prefix) THEN SubSeq(s, Len(prefix) + 1, Len(s)) ELSE s

\* s.find(c) + 1 for a single character c: 0 when c is not in s
Find(s, c) ==
    IF \E i \in 1..Len(s) : At(s, i) = c
    THEN CHOOSE i \in 1..Len(s) :
            At(s, i) = c /\ \A j \in 1..(i - 1) : At(s, j) # c
    ELSE 0

\* s.partition(sep) for a single character sep: [0] and [2] of the triple
PartitionBefore(s, sep) ==
    IF Find(s, sep) = 0 THEN s ELSE SubSeq(s, 1, Find(s, sep) - 1)
PartitionAfter(s, sep) ==
    IF Find(s, sep) = 0 THEN "" ELSE SubSeq(s, Find(s, sep) + 1, Len(s))

\* v.strip('"').strip("'")
Unquote(v) == StripChars(StripChars(v, {"\""}), {"'"})

\* parse_yaml_value
ParseYamlValue(line) == Unquote(Strip(PartitionAfter(line, ":")))

----------------------------------------------------------------------------
(* registry.py: parse_registry *)

\* current: dict | None
None == <<>>
Some(d) == <<d>>

NewRecord(slug) ==
    [slug |-> slug, path |-> "", repo |-> "", additional_paths |-> <<>>]

\* the locals of parse_registry before its loop; pos counts the lines consumed
RegistryFrame ==
    [pos |-> 0, projects |-> <<>>, current |-> None, in_additional |-> FALSE]

\* what a parser returns
ReturnedValue(v) == [kind |-> "returned", value |-> v]

\* re.match(r"^  ([a-zA-Z0-9_-]+):\s*$", line), and its group(1)
SlugChars == Lowercase \cup Uppercase \cup Digits \cup {"_", "-"}

SlugMatch(line) ==
    LET colon == Find(line, ":")
    IN  /\ StartsWith(line, "  ")
        /\ colon >= 4
        /\ \A i \in 3..(colon - 1) : At(line, i) \in SlugChars
        /\ \A i \in (colon + 1)..Len(line) : At(line, i) \in Whitespace

SlugGroup(line) == SubSeq(line, 3, Find(line, ":") - 1)

\* not line.strip() or line.strip().startswith("#")
BlankOrComment(line) == Strip(line) = "" \/ StartsWith(Strip(line), "#")

\* re.match(r"^    [a-z]", line)
FourSpaceLowercase(line) ==
    StartsWith(line, "    ") /\ Len(line) >= 5 /\ At(line, 5) \in Lowercase

\* a slug line that drops the record that was open instead of emitting it
SlugLine_DropsOpenRecord(f, line) ==
    [f EXCEPT !.current = Some(NewRecord(SlugGroup(line))),
              !.in_additional = FALSE]

\* the body of `if m:`
SlugLine(f, line) ==
    [f EXCEPT !.projects = IF f.current # None THEN Append(@, f.current[1]) ELSE @,
              !.current = Some(NewRecord(SlugGroup(line))),
              !.in_additional = FALSE]

\* the if/elif chain over the lines of an open record
FieldLine(f, line) ==
    IF StartsWith(line, "    path:")
    THEN [f EXCEPT !.current[1].path = ParseYamlValue(line),
                   !.in_additional = FALSE]
    ELSE IF StartsWith(line, "    repo:")
    THEN [f EXCEPT !.current[1].repo = ParseYamlValue(line),
                   !.in_additional = FALSE]
    ELSE IF Strip(line) = "additional_paths:"
    THEN [f EXCEPT !.in_additional = TRUE]
    ELSE IF f.in_additional /\ StartsWith(line, "      - ")
    THEN [f EXCEPT !.current[1].additional_paths =
                        Append(@, Strip(RemovePrefix(Strip(line), "- ")))]
    ELSE IF FourSpaceLowercase(line)
    THEN [f EXCEPT !.in_additional = FALSE]
    ELSE f

\* a blank or comment line that leaves the additional-paths block open
BlankOrCommentLine_KeepsBlock(f) == f

\* the body of the blank / comment test
BlankOrCommentLine(f) == [f EXCEPT !.in_additional = FALSE]

\* one iteration of the loop of parse_registry
ParseRegistryLine(f, raw_line) ==
    LET line == RStrip(raw_line)
    IN  IF line = "projects:" THEN f
        ELSE IF BlankOrComment(line) THEN BlankOrCommentLine(f)
        ELSE IF SlugMatch(line) THEN SlugLine(f, line)
        ELSE IF f.current = None THEN f
        ELSE FieldLine(f, line)

\* the flush after the loop: the list parse_registry returns
EndOfInput(f) ==
    IF f.current # None THEN Append(f.projects, f.current[1]) ELSE f.projects

----------------------------------------------------------------------------
(* Specification of parse_registry *)

MaxRegistryLines == 3     \* longest registry text explored exhaustively

RegistryLines ==
    { "projects:",
      "  w:",
      "  d-2:  ",
      "    path: \"/p\"",
      "    repo: 'g:r'",
      "    additional_paths:",
      "additional_paths:",
      "      - \"/q\"",
      "    Name: x",
      "    name: x",
      "",
      "  # c" }

\* the registry of the concrete scenario
ExampleRegistry ==
    << "projects:",
       "  widget:",
       "    path: \"/home/dev/widget\"",
       "    repo: \"git@example.com:acme/widget.git\"",
       "    additional_paths:",
       "      - \"/home/dev/widget-docs\"" >>

\* a record with an additional-paths block interrupted by one line
Interrupted(line) ==
    << "  w:", "    additional_paths:", "      - \"/q\"", line,
       "      - \"/q\"", "    path: \"/p\"" >>

RegistryScenarios ==
    { ExampleRegistry,
      << "    path: \"/p\"", "  w:", "    repo: 'g:r'", "  d-2:  ", "    path: \"/p\"" >>,
      << "  w:", "    path: \"/p\"", "  w:", "    repo: 'g:r'" >>,
      << "  w:", "    path: \"/p\"", "  my.project:", "    repo: 'g:r'",
         "    additional_paths:", "      - \"/q\"" >>,
      << "  w:", "  web: x", "    path: \"/p\"", "  d-2:  ", "    repo: 'g:r'" >>,
      << "  my.project:", "    path: \"/p\"", "  w:" >> }
    \cup { Interrupted(line) : line \in {"", "  # c", "    Name: x", "    name: x"} }

RegistryTexts == SeqsUpTo(RegistryLines, MaxRegistryLines) \cup RegistryScenarios

InitRegistry ==
    /\ fs = [dirs |-> FsDirs, files |-> FsFiles, links |-> NoLinks]
    /\ projects = <<>>
    /\ call = NoCall
    /\ result = NoResult
    /\ text \in {NoText} \cup { [is_file |-> TRUE, lines |-> t] : t \in RegistryTexts }
    /\ frame = NoFrame

\* the statements of parse_registry before its loop
CallParseRegistry ==
    /\ Idle
    /\ call' = [NoCall EXCEPT !.op = "parse_registry"]
    /\ IF text.is_file
       THEN frame' = RegistryFrame /\ result' = result
       ELSE frame' = frame /\ result' = ReturnedValue(<<>>)
    /\ UNCHANGED <<fs, projects, text>>

Running(op) == call.op = op /\ result.kind = "init"

ParseRegistryStep ==
    /\ Running("parse_registry")
    /\ frame.pos < Len(text.lines)
    /\ frame' = [ParseRegistryLine(frame, text.lines[frame.pos + 1])
                    EXCEPT !.pos = frame.pos + 1]
    /\ UNCHANGED <<fs, projects, call, result, text>>

ParseRegistryReturn ==
    /\ Running("parse_registry")
    /\ frame.pos = Len(text.lines)
    /\ result' = ReturnedValue(EndOfInput(frame))
    /\ UNCHANGED <<fs, projects, call, text, frame>>

NextRegistry ==
    \/ CallParseRegistry
    \/ ParseRegistryStep
    \/ ParseRegistryReturn

SpecRegistry == InitRegistry /\ [][NextRegistry]_vars

----------------------------------------------------------------------------
(* Properties of parse_registry *)

Parsing == call.op = "parse_registry" /\ text.is_file
Parsed == Parsing /\ result.kind = "returned"

\* the line the next iteration consumes, and the lines consumed so far
NextLine == text.lines[frame.pos + 1]
ConsumedLines == SubSeq(text.lines, 1, frame.pos)

Quotes == {"\"", "'"}
Unquoted(v) == v = "" \/ (Head(v) \notin Quotes /\ At(v, Len(v)) \notin Quotes)

ExampleRecord ==
    [slug |-> "widget", path |-> "/home/dev/widget",
     repo |-> "git@example.com:acme/widget.git",
     additional_paths |-> << "/home/dev/widget-docs" >>]

\* C11: parse_registry returns the values of path:, repo: and of every
\* additional_paths item without their surrounding quote characters, and the
\* registry of the concrete scenario yields exactly the record widget with
\* path /home/dev/widget, repo git@example.com:acme/widget.git and the one
\* additional path /home/dev/widget-docs.
C11_ValuesUnquoted ==
    Parsed =>
        /\ \A i \in 1..Len(result.value) :
            /\ Unquoted(result.value[i].path)
            /\ Unquoted(result.value[i].repo)
            /\ \A j \in 1..Len(result.value[i].additional_paths) :
                    Unquoted(result.value[i].additional_paths[j])
        /\ text.lines = ExampleRegistry => result.value = << ExampleRecord >>

\* what does hold: path and repo are unquoted, colons inside the value kept
C11_PathAndRepoUnquoted ==
    Parsed =>
        /\ \A i \in 1..Len(result.value) :
            /\ Unquoted(result.value[i].path)
            /\ Unquoted(result.value[i].repo)
        /\ text.lines = ExampleRegistry =>
            /\ Len(result.value) = 1
            /\ result.value[1].slug = ExampleRecord.slug
            /\ result.value[1].path = ExampleRecord.path
            /\ result.value[1].repo = ExampleRecord.repo
            /\ result.value[1].additional_paths = << "\"/home/dev/widget-docs\"" >>

\* a line that matches the slug pattern at two-space indentation, and the
\* name it carries: what stands between the indentation and the colon
IsSlugLine(raw_line) == SlugMatch(RStrip(raw_line))
SlugName(raw_line) == SubSeq(Strip(raw_line), 1, Len(Strip(raw_line)) - 1)

IsSlugLineTest(raw_line) == IsSlugLine(raw_line)
SlugLines(lines) == SelectSeq(lines, IsSlugLineTest)
SlugNames(lines) == [i \in 1..Len(SlugLines(lines)) |-> SlugName(SlugLines(lines)[i])]
SlugsOf(records) == [i \in 1..Len(records) |-> records[i].slug]

\* C12: parse_registry emits exactly one record per slug line, in the order of
\* those lines: at every point of the loop the emitted records followed by the
\* open one are the slug lines consumed so far, nothing is built before the
\* first slug line, and the list returned at end of input has one record per
\* slug line of the text.
C12_OneRecordPerSlugLine ==
    /\ Parsing /\ result.kind = "init" =>
        /\ SlugsOf(EndOfInput(frame)) = SlugNames(ConsumedLines)
        /\ SlugLines(ConsumedLines) = <<>> =>
                frame = [RegistryFrame EXCEPT !.pos = frame.pos]
    /\ Parsed => SlugsOf(result.value) = SlugNames(text.lines)

C12_Witness ==
    /\ Parsed
    /\ text.lines = << "    path: \"/p\"", "  w:", "    repo: 'g:r'", "  d-2:  ",
                       "    path: \"/p\"" >>
    /\ result.value =
        << [slug |-> "w", path |-> "", repo |-> "g:r", additional_paths |-> <<>>],
           [slug |-> "d-2", path |-> "/p", repo |-> "", additional_paths |-> <<>>] >>

\* the iteration appended an item to the open record
Appended ==
    /\ frame.current # None
    /\ frame'.current # None
    /\ Len(frame'.current[1].additional_paths) > Len(frame.current[1].additional_paths)

IsFourSpaceMarker(raw_line) == RStrip(raw_line) = "    additional_paths:"
IsSixSpaceItem(raw_line) == StartsWith(raw_line, "      - ")

\* C13: a line is appended to additional_paths only if it is a six-space
\* `- ` item met while a block is open, and a block is opened only by an
\* additional_paths: marker at four-space indentation inside a record.
C13_BlockOnlyByFourSpaceMarker ==
    [][ParseRegistryStep =>
        /\ Appended => frame.in_additional /\ IsSixSpaceItem(NextLine)
        /\ frame'.in_additional /\ ~frame.in_additional =>
                IsFourSpaceMarker(NextLine) /\ frame.current # None]_vars

\* what does hold: items are appended only inside an open block, and a block
\* is opened only by a marker line, whatever its indentation
C13_ItemsOnlyInsideBlock ==
    [][ParseRegistryStep =>
        /\ Appended => frame.in_additional /\ IsSixSpaceItem(NextLine)
        /\ frame'.in_additional /\ ~frame.in_additional =>
                Strip(NextLine) = "additional_paths:" /\ frame.current # None]_vars

\* a line at four-space indentation that is no path:, repo: or marker line
IsOtherFourSpaceLine(raw_line) ==
    /\ StartsWith(raw_line, "    ")
    /\ Len(raw_line) >= 5
    /\ At(raw_line, 5) \in Lowercase \cup Uppercase \cup Digits \cup {"_"}
    /\ ~StartsWith(raw_line, "    path:")
    /\ ~StartsWith(raw_line, "    repo:")
    /\ ~IsFourSpaceMarker(raw_line)

\* C14: any other line at four-space indentation closes the open
\* additional-paths block and leaves the record open and unchanged.
C14_OtherFourSpaceLineClosesBlock ==
    [][ParseRegistryStep /\ IsOtherFourSpaceLine(NextLine) =>
        /\ ~frame'.in_additional
        /\ frame'.current = frame.current
        /\ frame'.projects = frame.projects]_vars

\* what does hold: the block is closed when the first character is lowercase
C14_LowercaseLineClosesBlock ==
    [][ParseRegistryStep /\ IsOtherFourSpaceLine(NextLine)
            /\ At(NextLine, 5) \in Lowercase =>
        /\ ~frame'.in_additional
        /\ frame'.current = frame.current
        /\ frame'.projects = frame.projects]_vars

IsBlank(raw_line) == Strip(raw_line) = ""
IsComment(raw_line) == Len(Strip(raw_line)) > 0 /\ Head(Strip(raw_line)) = "#"

\* C15: a blank line or a comment line closes the open additional-paths block
\* and nothing else; items after it are not appended until a new marker, path:
\* and repo: lines after it still set the fields of the same record, and the
\* record is emitted once.
C15_BlankOrCommentClosesBlock ==
    /\ [][ParseRegistryStep =>
            /\ IsBlank(NextLine) \/ IsComment(NextLine) =>
                    /\ ~frame'.in_additional
                    /\ frame'.current = frame.current
                    /\ frame'.projects = frame.projects
            /\ ~frame.in_additional /\ IsSixSpaceItem(NextLine) =>
                    /\ ~frame'.in_additional
                    /\ frame'.current = frame.current
                    /\ frame'.projects = frame.projects
            /\ frame.current # None /\ NextLine = "    path: \"/p\"" =>
                    /\ frame'.current = Some([frame.current[1] EXCEPT !.path = "/p"])
                    /\ frame'.projects = frame.projects
            /\ frame.current # None /\ NextLine = "    repo: 'g:r'" =>
                    /\ frame'.current = Some([frame.current[1] EXCEPT !.repo = "g:r"])
                    /\ frame'.projects = frame.projects]_vars
    /\ [](Parsed /\ text.lines \in {Interrupted(""), Interrupted("  # c")} =>
            /\ Len(result.value) = 1
            /\ result.value[1].slug = "w"
            /\ result.value[1].path = "/p"
            /\ Len(result.value[1].additional_paths) = 1)

C15_Witness ==
    /\ Parsed
    /\ text.lines = Interrupted("  # c")
    /\ Len(result.value) = 1
    /\ result.value[1].path = "/p"
    /\ Len(result.value[1].additional_paths) = 1

\* C16: the records returned have non-empty and pairwise distinct slugs.
C16_SlugsDistinct ==
    Parsed =>
        /\ \A i \in 1..Len(result.value) : result.value[i].slug # ""
        /\ \A i, j \in 1..Len(result.value) :
                result.value[i].slug = result.value[j].slug => i = j

\* what does hold: slugs are never empty
C16_SlugsNonEmpty ==
    Parsed => \A i \in 1..Len(result.value) : result.value[i].slug # ""

----------------------------------------------------------------------------
(* registry.py: _parse_project_yaml *)

\* a dict: a function from its keys; d[k] = v
EmptyDict == [k \in {} |-> ""]
DictSet(d, k, v) == [x \in DOMAIN d \cup {k} |-> IF x = k THEN v ELSE d[x]]

\* the values of the result, tagged with their Python type
Str(s) == [type |-> "str", v |-> s]
List(items) == [type |-> "list", v |-> items]
Dict(d) == [type |-> "dict", v |-> d]

\* the locals of _parse_project_yaml before its loop
DocumentFrame ==
    [pos |-> 0, result |-> EmptyDict, current_key |-> "",
     current_map |-> None, current_list |-> None,
     in_multiline |-> FALSE, multiline_lines |-> <<>>]

\* "\n".join(lines)
RECURSIVE Join(_)
Join(lines) ==
    IF lines = <<>> THEN ""
    ELSE IF Len(lines) = 1 THEN lines[1]
    ELSE lines[1] \o "\n" \o Join(Tail(lines))

\* s.split(",")
RECURSIVE Split(_)
Split(s) ==
    IF Find(s, ",") = 0 THEN << s >>
    ELSE << PartitionBefore(s, ",") >> \o Split(PartitionAfter(s, ","))

\* [i.strip().strip('"').strip("'") for i in items if i.strip()]
RECURSIVE InlineItems(_)
InlineItems(items) ==
    IF items = <<>> THEN <<>>
    ELSE IF Strip(Head(items)) = "" THEN InlineItems(Tail(items))
    ELSE << Unquote(Strip(Head(items))) >> \o InlineItems(Tail(items))

\* re.match(r"^  [a-zA-Z_]", line)
TwoSpaceName(line) ==
    /\ StartsWith(line, "  ")
    /\ Len(line) >= 3
    /\ At(line, 3) \in Lowercase \cup Uppercase \cup {"_"}

\* re.match(r"^([a-zA-Z_][a-zA-Z0-9_]*)\s*:\s*(.*)", line): the length of
\* group(1), 0 when the line does not match
KeyChars == Lowercase \cup Uppercase \cup Digits \cup {"_"}

RECURSIVE KeyLen(_)
KeyLen(s) == IF Len(s) > 0 /\ Head(s) \in KeyChars THEN 1 + KeyLen(Tail(s)) ELSE 0

TopLevelMatch(line) ==
    /\ Len(line) > 0
    /\ Head(line) \in Lowercase \cup Uppercase \cup {"_"}
    /\ StartsWith(LStripChars(SubSeq(line, KeyLen(line) + 1, Len(line)), Whitespace), ":")

TopLevelKey(line) == SubSeq(line, 1, KeyLen(line))

\* m.group(2).strip()
TopLevelVal(line) ==
    Strip(Tail(LStripChars(SubSeq(line, KeyLen(line) + 1, Len(line)), Whitespace)))

\* a continuation that removes all the indentation of a collected line
MultilineContinuation_StripsAll(f, line) ==
    [f EXCEPT !.multiline_lines = Append(@, Strip(line))]

\* a line collected by an open multiline block
MultilineContinuation(f, line) ==
    [f EXCEPT !.multiline_lines =
        Append(@, IF StartsWith(line, "  ") THEN SubSeq(line, 3, Len(line)) ELSE "")]

\* "\n".join(multiline_lines).rstrip("\n")
MultilineValue(f) == Str(RStripChars(Join(f.multiline_lines), {"\n"}))

\* the else branch of the multiline test: the block ends
EndMultiline(f) ==
    [f EXCEPT !.result = DictSet(@, f.current_key, MultilineValue(f)),
              !.in_multiline = FALSE,
              !.multiline_lines = <<>>]

\* line and not line.startswith(" ")
NotIndented(line) == line # "" /\ ~StartsWith(line, " ")

\* a flush that stores an empty map in place of the open one
FlushMap_Empties(f, line) ==
    IF f.current_map # None /\ NotIndented(line)
    THEN [f EXCEPT !.result = DictSet(@, f.current_key, Dict(EmptyDict)),
                   !.current_map = None]
    ELSE f

\* flush any open map / list before a new top-level key
FlushMap(f, line) ==
    IF f.current_map # None /\ NotIndented(line)
    THEN [f EXCEPT !.result = DictSet(@, f.current_key, Dict(f.current_map[1])),
                   !.current_map = None]
    ELSE f

\* a flush that closes the open list without writing it
FlushList_Drops(f, line) ==
    IF f.current_list # None /\ NotIndented(line)
    THEN [f EXCEPT !.current_list = None]
    ELSE f

FlushList(f, line) ==
    IF f.current_list # None /\ NotIndented(line)
    THEN [f EXCEPT !.result = DictSet(@, f.current_key, List(f.current_list[1])),
                   !.current_list = None]
    ELSE f

\* k, _, v = line.strip().partition(":"); current_map[k.strip()] = ...
MapEntry(f, line) ==
    [f EXCEPT !.current_map =
        Some(DictSet(f.current_map[1],
                     Strip(PartitionBefore(Strip(line), ":")),
                     Unquote(Strip(PartitionAfter(Strip(line), ":")))))]

\* line.strip().removeprefix("- ").strip().strip('"').strip("'")
ItemValue(line) == Unquote(Strip(RemovePrefix(Strip(line), "- ")))

ListEntry(f, line) ==
    [f EXCEPT !.current_list = Some(Append(f.current_list[1], ItemValue(line)))]

\* a body of `if m:` that opens the inline list as the current list
TopLevel_InlineListOpens(f, line) ==
    LET key == TopLevelKey(line)
        val == TopLevelVal(line)
        g == [f EXCEPT !.current_key = key]
    IN  IF val = "|"
        THEN [g EXCEPT !.in_multiline = TRUE, !.multiline_lines = <<>>]
        ELSE IF val = ""
        THEN [g EXCEPT !.current_map = Some(EmptyDict), !.current_list = None]
        ELSE IF StartsWith(val, "[") /\ EndsWith(val, "]")
        THEN [g EXCEPT !.current_list =
                Some(InlineItems(Split(SubSeq(val, 2, Len(val) - 1))))]
        ELSE [g EXCEPT !.result = DictSet(@, key, Str(Unquote(val)))]

\* the body of `if m:`
TopLevel(f, line) ==
    LET key == TopLevelKey(line)
        val == TopLevelVal(line)
        g == [f EXCEPT !.current_key = key]
    IN  IF val = "|"
        THEN [g EXCEPT !.in_multiline = TRUE, !.multiline_lines = <<>>]
        ELSE IF val = ""
        THEN [g EXCEPT !.current_map = Some(EmptyDict), !.current_list = None]
        ELSE IF StartsWith(val, "[") /\ EndsWith(val, "]")
        THEN [g EXCEPT !.result =
                DictSet(@, key, List(InlineItems(Split(SubSeq(val, 2, Len(val) - 1)))))]
        ELSE [g EXCEPT !.result = DictSet(@, key, Str(Unquote(val)))]

\* a conversion that forgets the item that triggers it
DetectList_DropsFirstItem(f, line) ==
    IF f.current_map # None /\ DOMAIN f.current_map[1] = {} /\ StartsWith(line, "  - ")
    THEN [f EXCEPT !.current_list = Some(<<>>), !.current_map = None]
    ELSE f

\* a conversion that also converts a map that has entries
DetectList_AnyMap(f, line) ==
    IF f.current_map # None /\ StartsWith(line, "  - ")
    THEN [f EXCEPT !.current_list = Some(<< ItemValue(line) >>), !.current_map = None]
    ELSE f

\* detect list under a map-initialized key
DetectList(f, line) ==
    IF f.current_map # None /\ DOMAIN f.current_map[1] = {} /\ StartsWith(line, "  - ")
    THEN [f EXCEPT !.current_list = Some(<< ItemValue(line) >>), !.current_map = None]
    ELSE f

\* the loop body below the multiline test
OrdinaryLine(f, line) ==
    LET g == FlushList(FlushMap(f, line), line)
    IN  IF BlankOrComment(line) THEN g
        ELSE IF g.current_map # None /\ TwoSpaceName(line) THEN MapEntry(g, line)
        ELSE IF g.current_list # None /\ StartsWith(line, "  - ") THEN ListEntry(g, line)
        ELSE IF TopLevelMatch(line) THEN TopLevel(g, line)
        ELSE DetectList(g, line)

\* a loop body that drops the line that ends a multiline block
ParseDocumentLine_DropsEndingLine(f, raw_line) ==
    LET line == RStrip(raw_line)
    IN  IF f.in_multiline
        THEN IF StartsWith(line, "  ") \/ Strip(line) = ""
             THEN MultilineContinuation(f, line)
             ELSE EndMultiline(f)
        ELSE OrdinaryLine(f, line)

\* one iteration of the loop of _parse_project_yaml
ParseDocumentLine(f, raw_line) ==
    LET line == RStrip(raw_line)
    IN  IF f.in_multiline
        THEN IF StartsWith(line, "  ") \/ Strip(line) = ""
             THEN MultilineContinuation(f, line)
             ELSE OrdinaryLine(EndMultiline(f), line)
        ELSE OrdinaryLine(f, line)

\* flush trailing state: the dict _parse_project_yaml returns
FlushTrailing(f) ==
    LET r1 == IF f.in_multiline
              THEN DictSet(f.result, f.current_key, MultilineValue(f))
              ELSE f.result
        r2 == IF f.current_map # None
              THEN DictSet(r1, f.current_key, Dict(f.current_map[1]))
              ELSE r1
    IN  IF f.current_list # None
        THEN DictSet(r2, f.current_key, List(f.current_list[1]))
        ELSE r2

----------------------------------------------------------------------------
(* Specification of _parse_project_yaml *)

MaxDocumentLines == 3     \* longest metadata text explored exhaustively

DocumentLines ==
    { "name: \"Widget\"",
      "tags:",
      "tags: [a, \"b\"]",
      "notes: |",
      "  - x",
      "  - \"y\"",
      "  k: v",
      "    deep",
      " odd",
      "???",
      "# c",
      "" }

\* the metadata of the concrete scenario
ExampleDocument ==
    << "name: Widget",
       "summary: \"A sample widget\"",
       "tags: [a, b]",
       "links:",
       "  repo: https://example.com",
       "notes: |",
       "  line one",
       "  line two" >>

\* top-level scalars with quotes at one end, at both ends, mixed and doubled
ScalarLines ==
    { "name: \"Widget",
      "name: Widget'",
      "name: 'Widget\"",
      "name: \"\"Widget\"\"",
      "name: \"it's\"",
      "name:   plain  " }

DocumentScenarios ==
    { ExampleDocument,
      << "notes: |", "  line one", "", "    deep", "", "", "name: \"Widget\"" >>,
      << "notes: |", "", "  line one", "  line two  ", " odd", "  k: v" >>,
      << "tags:", "    deep", "  - x", "  k: v", "  - \"y\"", "???", "  - x" >>,
      << "tags:", "  k: v", "  - x", "  k2: 'w'", "# c", "  k: v" >>,
      << "tags:", "  - x", "  # c", "", "  - \"y\"" >>,
      << "links:", "  k: v", "    # c", "", "  k2: 'w'" >>,
      << "tags:", "  - x", "links:", "  k: v", "notes: |", "  line one" >>,
      << "links:", "  word", "  repo: https://example.com", "   three: x",
         "  k2: 'w'", " odd", "  k3: z" >>,
      << "tags: []" >>,
      << "tags: [ 'a' , \"b\",c ]", "  - x" >> }
    \cup { << line >> : line \in ScalarLines }

DocumentTexts == SeqsUpTo(DocumentLines, MaxDocumentLines) \cup DocumentScenarios

InitDocument ==
    /\ fs = [dirs |-> FsDirs, files |-> FsFiles, links |-> NoLinks]
    /\ projects = <<>>
    /\ call = NoCall
    /\ result = NoResult
    /\ text \in { [is_file |-> TRUE, lines |-> t] : t \in DocumentTexts }
    /\ frame = NoFrame

\* the statements of _parse_project_yaml before its loop
CallParseProjectYaml ==
    /\ Idle
    /\ call' = [NoCall EXCEPT !.op = "_parse_project_yaml"]
    /\ frame' = DocumentFrame
    /\ UNCHANGED <<fs, projects, result, text>>

ParseDocumentStep ==
    /\ Running("_parse_project_yaml")
    /\ frame.pos < Len(text.lines)
    /\ frame' = [ParseDocumentLine(frame, text.lines[frame.pos + 1])
                    EXCEPT !.pos = frame.pos + 1]
    /\ UNCHANGED <<fs, projects, call, result, text>>

ParseDocumentReturn ==
    /\ Running("_parse_project_yaml")
    /\ frame.pos = Len(text.lines)
    /\ result' = ReturnedValue(FlushTrailing(frame))
    /\ UNCHANGED <<fs, projects, call, text, frame>>

NextDocument ==
    \/ CallParseProjectYaml
    \/ ParseDocumentStep
    \/ ParseDocumentReturn

SpecDocument == InitDocument /\ [][NextDocument]_vars

----------------------------------------------------------------------------
(* Properties of _parse_project_yaml *)

ParsingDocument == call.op = "_parse_project_yaml" /\ result.kind = "init"
ParsedDocument == call.op = "_parse_project_yaml" /\ result.kind = "returned"

\* the document the lines consumed so far amount to
DocumentSoFar == FlushTrailing(frame)

\* a scalar string, a list of strings or a one-level map of strings
WellTyped(value) ==
    \/ value.type = "str" /\ value.v \in STRING
    \/ value.type = "list" /\ \A i \in 1..Len(value.v) : value.v[i] \in STRING
    \/ value.type = "dict" /\ \A k \in DOMAIN value.v : k \in STRING /\ value.v[k] \in STRING

WellTypedDocument(d) == \A k \in DOMAIN d : k \in STRING /\ WellTyped(d[k])

MapOpen == frame.current_map # None
ListOpen == frame.current_list # None
PendingEmptyMap == MapOpen /\ DOMAIN frame.current_map[1] = {}

IsItemLine(raw_line) == StartsWith(RStrip(raw_line), "  - ")
IsEntryLine(raw_line) == TwoSpaceName(RStrip(raw_line))
IsTopLevelLine(raw_line) == TopLevelMatch(RStrip(raw_line))
IsContinuationLine(raw_line) == IsBlank(raw_line) \/ StartsWith(raw_line, "  ")

\* a line that is nothing the parser recognises in the state it is in
CannotParse(raw_line) ==
    /\ ~IsBlank(raw_line)
    /\ ~IsComment(raw_line)
    /\ ~IsTopLevelLine(raw_line)
    /\ ~(frame.in_multiline /\ IsContinuationLine(raw_line))
    /\ ~(MapOpen /\ IsEntryLine(raw_line))
    /\ ~((ListOpen \/ PendingEmptyMap) /\ IsItemLine(raw_line))

\* C17: _parse_project_yaml is total: every line of every text is consumed by
\* one iteration, the document built is at every point a map from strings to
\* scalar strings, lists of strings and one-level maps of strings, and a line
\* that cannot be parsed leaves the document built so far as it was.
C17_TotalAndWellTyped ==
    /\ [](ParsingDocument => WellTypedDocument(DocumentSoFar))
    /\ [](ParsedDocument => WellTypedDocument(result.value))
    /\ [][ParseDocumentStep =>
            /\ frame'.pos = frame.pos + 1
            /\ CannotParse(NextLine) => FlushTrailing(frame') = FlushTrailing(frame)]_vars

C17_Witness ==
    /\ ParsedDocument
    /\ text.lines = << "tags:", "    deep", "  - x", "  k: v", "  - \"y\"", "???", "  - x" >>
    /\ result.value = ("tags" :> List(<< "x", "y" >>))

\* C18: a key with an empty inline value followed by the two-space items
\* `- x` and `- "y"` holds the list ["x", "y"]: the first item converts the
\* pending empty map and is kept, the second is appended, quotes removed.
C18_EmptyKeyThenItemsIsList ==
    /\ ParsingDocument /\ frame.pos >= 3
            /\ SubSeq(text.lines, frame.pos - 2, frame.pos) = << "tags:", "  - x", "  - \"y\"" >> =>
        /\ frame.current_key = "tags"
        /\ frame.current_map = None
        /\ frame.current_list = Some(<< "x", "y" >>)
        /\ DocumentSoFar["tags"] = List(<< "x", "y" >>)
    /\ ParsedDocument /\ Len(text.lines) >= 3
            /\ SubSeq(text.lines, Len(text.lines) - 2, Len(text.lines)) =
                    << "tags:", "  - x", "  - \"y\"" >> =>
        result.value["tags"] = List(<< "x", "y" >>)

C18_Witness ==
    /\ ParsedDocument
    /\ text.lines = << "tags:", "  - x", "  - \"y\"" >>
    /\ result.value = ("tags" :> List(<< "x", "y" >>))

IsPrefix(s, t) == Len(s) <= Len(t) /\ SubSeq(t, 1, Len(s)) = s

\* the line closes the open block of current_key without declaring the key again
ClosesBlock(raw_line) ==
    /\ NotIndented(RStrip(raw_line))
    /\ ~(IsTopLevelLine(raw_line) /\ TopLevelKey(RStrip(raw_line)) = frame.current_key)

\* C19: the type of a key with an empty inline value is decided once, by its
\* first continuation line: a pending map that receives an entry stays a map,
\* later items neither convert it nor add to it; a list stays a list and later
\* entries add nothing; the block never is both, keeps what it accepted, and
\* is stored as it stands when it is closed.
C19_TypeDecidedOnce ==
    /\ [](ParsingDocument => ~(MapOpen /\ ListOpen))
    /\ [][ParseDocumentStep =>
            /\ PendingEmptyMap /\ NextLine = "  - x" =>
                    frame'.current_list = Some(<< "x" >>) /\ frame'.current_map = None
            /\ PendingEmptyMap /\ NextLine = "  k: v" =>
                    frame'.current_map = Some("k" :> "v") /\ frame'.current_list = None
            /\ MapOpen /\ ~PendingEmptyMap /\ ~NotIndented(RStrip(NextLine)) =>
                    /\ frame'.current_list = None
                    /\ frame'.current_map # None
                    /\ DOMAIN frame.current_map[1] \subseteq DOMAIN frame'.current_map[1]
                    /\ IsItemLine(NextLine) => frame'.current_map = frame.current_map
            /\ ListOpen /\ ~NotIndented(RStrip(NextLine)) =>
                    /\ frame'.current_map = None
                    /\ frame'.current_list # None
                    /\ IsPrefix(frame.current_list[1], frame'.current_list[1])
                    /\ IsEntryLine(NextLine) => frame'.current_list = frame.current_list
            /\ MapOpen /\ ClosesBlock(NextLine) =>
                    frame'.result[frame.current_key] = Dict(frame.current_map[1])
            /\ ListOpen /\ ClosesBlock(NextLine) =>
                    frame'.result[frame.current_key] = List(frame.current_list[1])]_vars

C19_Witness ==
    /\ ParsedDocument
    /\ text.lines = << "tags:", "  k: v", "  - x", "  k2: 'w'", "# c", "  k: v" >>
    /\ result.value = ("tags" :> Dict(("k" :> "v") @@ ("k2" :> "w")))

\* a line that opens a multiline block, and the key it opens it for
IsBlockOpener(raw_line) ==
    IsTopLevelLine(raw_line) /\ TopLevelVal(RStrip(raw_line)) = "|"

\* a collected line without its two leading spaces
Dedent(raw_line) ==
    IF IsBlank(raw_line) THEN "" ELSE SubSeq(RStrip(raw_line), 3, Len(RStrip(raw_line)))

RECURSIVE DropTrailingBlanks(_)
DropTrailingBlanks(lines) ==
    IF lines # <<>> /\ lines[Len(lines)] = ""
    THEN DropTrailingBlanks(SubSeq(lines, 1, Len(lines) - 1))
    ELSE lines

\* the lines collected after the opener at position start, and their text
Collected(start) == [i \in 1..(frame.pos - start) |-> Dedent(text.lines[start + i])]
BlockText(start) == Str(Join(DropTrailingBlanks(Collected(start))))

\* the opener of the block that is open: the last opener consumed
Opener ==
    CHOOSE start \in 1..frame.pos :
        /\ IsBlockOpener(text.lines[start])
        /\ \A i \in (start + 1)..frame.pos : ~IsBlockOpener(text.lines[i])

ExampleResult ==
    ("name" :> Str("Widget")) @@ ("summary" :> Str("A sample widget"))
        @@ ("tags" :> List(<< "a", "b" >>))
        @@ ("links" :> Dict("repo" :> "https://example.com"))
        @@ ("notes" :> Str("line one\nline two"))

\* C20: a key whose inline value is `|` collects the following lines that are
\* indented by two spaces or blank, each without its two leading spaces,
\* joined by newlines, trailing blank lines removed and interior ones kept;
\* the first other line ends the block, stores the text and is itself parsed
\* as an ordinary line.  `  line one`, `  line two` give "line one\nline two".
C20_MultilineBlock ==
    /\ [](ParsingDocument /\ frame.in_multiline =>
            /\ \E start \in 1..frame.pos : IsBlockOpener(text.lines[start])
            /\ \A i \in (Opener + 1)..frame.pos : IsContinuationLine(text.lines[i])
            /\ frame.current_key = TopLevelKey(text.lines[Opener])
            /\ frame.multiline_lines = Collected(Opener)
            /\ DocumentSoFar[frame.current_key] = BlockText(Opener))
    /\ [][ParseDocumentStep /\ frame.in_multiline =>
            /\ IsContinuationLine(NextLine) => frame'.in_multiline
            /\ ~IsContinuationLine(NextLine) =>
                /\ frame'.in_multiline = IsBlockOpener(NextLine)
                /\ NextLine # "notes: |" =>
                        frame'.result[frame.current_key] = BlockText(Opener)
                /\ NextLine = "name: \"Widget\"" => frame'.result["name"] = Str("Widget")
                /\ NextLine = "tags: [a, \"b\"]" =>
                        frame'.result["tags"] = List(<< "a", "b" >>)
                /\ NextLine = "tags:" =>
                        frame'.current_key = "tags" /\ frame'.current_map = Some(EmptyDict)
                /\ NextLine = "notes: |" =>
                        frame'.current_key = "notes" /\ frame'.multiline_lines = <<>>]_vars
    /\ [](ParsedDocument /\ text.lines = ExampleDocument => result.value = ExampleResult)

C20_Witness ==
    /\ ParsedDocument
    /\ text.lines = << "notes: |", "  line one", "", "    deep", "", "", "name: \"Widget\"" >>
    /\ result.value = ("notes" :> Str("line one\n\n  deep")) @@ ("name" :> Str("Widget"))

----------------------------------------------------------------------------
(* Properties of atlas_grep *)

Grepped == call.op = "atlas_grep" /\ result.kind = "grep"

\* the limit a caller can mean by max_results: no match at all below 1
Limit == IF call.max_results < 0 THEN 0 ELSE call.max_results

\* matches come in sorted file order and ascending line order
GrepOrdered ==
    \A k, l \in 1..Len(result.matches) :
        k < l =>
            IF result.matches[k].file = result.matches[l].file
            THEN result.matches[k].line < result.matches[l].line
            ELSE PathLess(result.matches[k].file, result.matches[l].file)

\* every matching line of every file that was read is among the matches
GrepComplete ==
    \A f \in result.read :
        \A n \in 1..Len(FileLines(f)) :
            LineMatches(call.pattern, FileLines(f)[n]) =>
                \E k \in 1..Len(result.matches) :
                    /\ Stat(CanonicalRoot(RecordFor(call.slug)) \o result.matches[k].file) = f
                    /\ result.matches[k].line = n

\* C27: atlas_grep never returns more than max_results matches, for every
\* max_results including 0 and negative values; truncated is false only when
\* every matching line of every scanned file was returned; matches come in
\* sorted file order and ascending line order.
C27_GrepAtMostMaxResults ==
    Grepped =>
        /\ Len(result.matches) <= Limit
        /\ ~result.truncated => GrepComplete
        /\ GrepOrdered

\* what does hold: the limit is kept when max_results is at least 1
C27_GrepAtMostPositiveMaxResults ==
    Grepped =>
        /\ call.max_results >= 1 => Len(result.matches) <= call.max_results
        /\ ~result.truncated => GrepComplete
        /\ GrepOrdered

----------------------------------------------------------------------------
(* find_project_for_path and the order of the registry *)

\* the registry in the order perm, a permutation of its indices
Permuted(perm) == [i \in Recs |-> projects[perm[i]]]

\* no canonical root belongs to two records
RootsDistinct == \A i, j \in Recs : i # j => RootsOf(i) \cap RootsOf(j) = {}

WellFormed == AllHavePrimary /\ RootsDistinct

\* C30: for a registry in which every record has a primary path and no
\* canonical root belongs to two records, every order of the records gives
\* the same returned record, or none, for every target.
C30_OrderIndependent ==
    Found /\ WellFormed =>
        \A perm \in Permutations(Recs) :
            LET other == FindProjectForPath(Permuted(perm), call.arg)
            IN  IF other = 0 THEN result.kind = "none"
                ELSE result.kind = "project" /\ result.idx = perm[other]

C30_Witness ==
    /\ Found
    /\ WellFormed
    /\ Len(projects) = 2
    /\ projects[1].path = PathA
    /\ projects[2].path = PathAB
    /\ call.arg = PathABC
    /\ result.kind = "project"
    /\ result.idx = 2
    /\ FindProjectForPath(<< projects[2], projects[1] >>, call.arg) = 1

----------------------------------------------------------------------------
(* parse_registry and header lines that are no slug lines *)

\* a line at two-space indentation that heads a section: `name...:`
IsHeaderLine(raw_line) ==
    /\ StartsWith(raw_line, "  ")
    /\ Len(raw_line) >= 3
    /\ At(raw_line, 3) \notin {" ", "#", "-"}
    /\ Find(raw_line, ":") > 0

IsBadHeader(raw_line) == IsHeaderLine(raw_line) /\ ~IsSlugLine(raw_line)

\* the last header line consumed is no slug line
InSkippedSection ==
    \E i \in 1..frame.pos :
        /\ IsBadHeader(text.lines[i])
        /\ \A j \in (i + 1)..frame.pos : ~IsSlugLine(text.lines[j])

\* C29: a two-space-indented header line that does not match the slug pattern
\* is skipped together with its section: the lines that follow it, up to the
\* next slug line, change no record.
C29_BadHeaderSectionSkipped ==
    [][ParseRegistryStep /\ InSkippedSection /\ ~IsSlugLine(NextLine) =>
        /\ frame'.current = frame.current
        /\ frame'.projects = frame.projects]_vars

\* what does hold: the header line itself changes no record, and its section
\* is skipped when no record is open
C29_BadHeaderLineSkipped ==
    [][ParseRegistryStep =>
        /\ IsBadHeader(NextLine) =>
                frame'.current = frame.current /\ frame'.projects = frame.projects
        /\ InSkippedSection /\ ~IsSlugLine(NextLine) /\ frame.current = None =>
                frame'.current = None /\ frame'.projects = <<>>]_vars

----------------------------------------------------------------------------
(* _parse_project_yaml: comments, flushes, scalars, map entries, inline lists *)

\* the frame after a line that was consumed without any effect
Skipped == [frame EXCEPT !.pos = frame.pos + 1]

\* C21: outside a multiline block a blank line or a comment line, at any
\* indentation including zero, leaves the parser state unchanged: an open map
\* or list stays open under the same key.
C21_BlankOrCommentIgnored ==
    [][ParseDocumentStep /\ ~frame.in_multiline
            /\ (IsBlank(NextLine) \/ IsComment(NextLine)) =>
        frame' = Skipped]_vars

\* what does hold: blank lines and indented comment lines are ignored, and a
\* comment at zero indentation is ignored when no map or list is open
C21_BlankOrIndentedCommentIgnored ==
    [][ParseDocumentStep /\ ~frame.in_multiline
            /\ (IsBlank(NextLine) \/ IsComment(NextLine))
            /\ (IsBlank(NextLine) \/ StartsWith(NextLine, " ") \/ (~MapOpen /\ ~ListOpen)) =>
        frame' = Skipped]_vars

\* the block that is open, as a value of the document
AnyOpen == MapOpen \/ ListOpen \/ frame.in_multiline

OpenValue ==
    IF MapOpen THEN Dict(frame.current_map[1])
    ELSE IF ListOpen THEN List(frame.current_list[1])
    ELSE BlockText(Opener)

\* the line stores a value of its own under the key it declares
DeclaresValue(raw_line) ==
    /\ IsTopLevelLine(raw_line)
    /\ TopLevelVal(RStrip(raw_line)) \notin {"", "|"}

DeclaredKey(raw_line) == TopLevelKey(RStrip(raw_line))

\* the line ends the block that is open
EndsBlock(raw_line) ==
    IF frame.in_multiline THEN ~IsContinuationLine(raw_line)
    ELSE NotIndented(RStrip(raw_line))

\* C22: the map, list or multiline block open under a key is written to the
\* document under that key, as it stands, when the next line at zero
\* indentation arrives or when the input ends; a step writes under no other
\* key than the one of the open block and the one the line declares; at most
\* one block is open at any time.
C22_BlockFlushedUnderItsKey ==
    /\ [](ParsingDocument =>
            /\ ~(MapOpen /\ ListOpen)
            /\ ~(MapOpen /\ frame.in_multiline)
            /\ ~(ListOpen /\ frame.in_multiline))
    /\ [][ParseDocumentStep =>
            /\ AnyOpen /\ EndsBlock(NextLine) =>
                /\ frame.current_key \in DOMAIN frame'.result
                /\ ~(DeclaresValue(NextLine) /\ DeclaredKey(NextLine) = frame.current_key) =>
                        frame'.result[frame.current_key] = OpenValue
            /\ AnyOpen /\ ~EndsBlock(NextLine) => frame'.result = frame.result
            /\ \A k \in DOMAIN frame'.result :
                    \/ k \in DOMAIN frame.result /\ frame'.result[k] = frame.result[k]
                    \/ AnyOpen /\ k = frame.current_key
                    \/ DeclaresValue(NextLine) /\ k = DeclaredKey(NextLine)
            /\ DOMAIN frame.result \subseteq DOMAIN frame'.result]_vars
    /\ [][ParseDocumentReturn =>
            result'.value = IF AnyOpen
                            THEN DictSet(frame.result, frame.current_key, OpenValue)
                            ELSE frame.result]_vars

C22_Witness ==
    /\ ParsedDocument
    /\ text.lines = << "tags:", "  - x", "links:", "  k: v", "notes: |", "  line one" >>
    /\ result.value = ("tags" :> List(<< "x" >>)) @@ ("links" :> Dict("k" :> "v"))
                        @@ ("notes" :> Str("line one"))

\* a scalar without the pair of quotes around it, when both ends carry the
\* same quote character
WithoutMatchingQuotes(v) ==
    IF Len(v) >= 2 /\ Head(v) \in Quotes /\ At(v, Len(v)) = Head(v)
    THEN SubSeq(v, 2, Len(v) - 1)
    ELSE v

IsScalarLine(raw_line) ==
    /\ DeclaresValue(raw_line)
    /\ ~(StartsWith(TopLevelVal(RStrip(raw_line)), "[")
            /\ EndsWith(TopLevelVal(RStrip(raw_line)), "]"))

\* C23: a top-level inline scalar loses one quote character at each end only
\* when it begins and ends with the same quote character; otherwise it is
\* stored as written, trimmed.
C23_MatchingQuotesOnly ==
    [][ParseDocumentStep /\ IsScalarLine(NextLine) =>
        frame'.result[DeclaredKey(NextLine)] =
            Str(WithoutMatchingQuotes(TopLevelVal(RStrip(NextLine))))]_vars

\* what does hold: a scalar without quotes, or inside one matching pair
C23_PlainOrOnePair ==
    [][ParseDocumentStep /\ IsScalarLine(NextLine)
            /\ Unquoted(WithoutMatchingQuotes(TopLevelVal(RStrip(NextLine)))) =>
        frame'.result[DeclaredKey(NextLine)] =
            Str(WithoutMatchingQuotes(TopLevelVal(RStrip(NextLine))))]_vars

\* a line indented by exactly two spaces
ExactlyTwoSpaces(raw_line) ==
    StartsWith(raw_line, "  ") /\ Len(raw_line) >= 3 /\ At(raw_line, 3) # " "

\* `key: value` at exactly two spaces
IsKeyValueLine(raw_line) ==
    /\ ExactlyTwoSpaces(raw_line)
    /\ At(raw_line, 3) \in Lowercase \cup Uppercase \cup {"_"}
    /\ Find(raw_line, ":") > 0

\* C24: while a map is open a line adds an entry only if it is `key: value`
\* at exactly two spaces, and the value is the text after the first colon,
\* trimmed and unquoted; an indented line of another form (no colon, other
\* indentation) adds no entry and leaves the map open as it is.
C24_EntryOnlyFromKeyValueLine ==
    [][ParseDocumentStep /\ MapOpen =>
        /\ NextLine = "  repo: https://example.com" =>
                frame'.current_map =
                    Some(DictSet(frame.current_map[1], "repo", "https://example.com"))
        /\ NextLine = "  k2: 'w'" =>
                frame'.current_map = Some(DictSet(frame.current_map[1], "k2", "w"))
        /\ StartsWith(NextLine, " ") /\ ~IsKeyValueLine(NextLine) /\ ~IsItemLine(NextLine) =>
                frame'.current_map = frame.current_map]_vars

\* what does hold: the same, for lines that do not start with a name at two
\* spaces
C24_EntryFromKeyValueLine ==
    [][ParseDocumentStep /\ MapOpen =>
        /\ NextLine = "  repo: https://example.com" =>
                frame'.current_map =
                    Some(DictSet(frame.current_map[1], "repo", "https://example.com"))
        /\ NextLine = "  k2: 'w'" =>
                frame'.current_map = Some(DictSet(frame.current_map[1], "k2", "w"))
        /\ StartsWith(NextLine, " ") /\ ~IsEntryLine(NextLine) /\ ~IsItemLine(NextLine) =>
                frame'.current_map = frame.current_map]_vars

InlineListLine == "tags: [a, \"b\"]"

\* the last line at zero indentation consumed is the inline list
AfterInlineList ==
    \E i \in 1..frame.pos :
        /\ text.lines[i] = InlineListLine
        /\ \A j \in (i + 1)..frame.pos :
                IsBlank(text.lines[j]) \/ StartsWith(text.lines[j], " ")

\* C25: an inline value `[a, b, c]` is stored as the list of its items in the
\* written order, trimmed and unquoted; it opens no collection, so indented
\* lines that follow are not added to it; `[]` gives the empty list.
C25_InlineList ==
    /\ [](ParsingDocument /\ AfterInlineList =>
            /\ ~AnyOpen
            /\ frame.result["tags"] = List(<< "a", "b" >>)
            /\ DocumentSoFar["tags"] = List(<< "a", "b" >>))
    /\ [](ParsedDocument /\ text.lines = << "tags: []" >> =>
            result.value = ("tags" :> List(<<>>)))
    /\ [](ParsedDocument /\ text.lines = << "tags: [ 'a' , \"b\",c ]", "  - x" >> =>
            result.value = ("tags" :> List(<< "a", "b", "c" >>)))

C25_Witness ==
    /\ ParsedDocument
    /\ text.lines = << InlineListLine, "  - x", "  k: v" >>
    /\ result.value = ("tags" :> List(<< "a", "b" >>))

----------------------------------------------------------------------------
(* registry.py: get_all_projects; server.py: atlas_search_projects *)

\* the loops of the two parsers, run over a whole text
RECURSIVE RegistryLoop(_, _)
RegistryLoop(f, lines) ==
    IF lines = <<>> THEN f
    ELSE RegistryLoop(ParseRegistryLine(f, Head(lines)), Tail(lines))

ParseRegistry(file) ==
    IF file.is_file THEN EndOfInput(RegistryLoop(RegistryFrame, file.lines)) ELSE <<>>

RECURSIVE DocumentLoop(_, _)
DocumentLoop(f, lines) ==
    IF lines = <<>> THEN f
    ELSE DocumentLoop(ParseDocumentLine(f, Head(lines)), Tail(lines))

ParseProjectYaml(lines) == FlushTrailing(DocumentLoop(DocumentFrame, lines))

\* read_project_cache: None when CACHE_DIR/<slug>.yaml is no file
ReadProjectCache(slug) ==
    IF slug \in DOMAIN text.cache /\ text.cache[slug].is_file
    THEN Some(ParseProjectYaml(text.cache[slug].lines))
    ELSE None

\* d.pop(k, None), d.update(e), d.get(k, default)
DictPop(d, k) == [x \in DOMAIN d \ {k} |-> d[x]]
DictUpdate(d, e) == [x \in DOMAIN d \cup DOMAIN e |-> IF x \in DOMAIN e THEN e[x] ELSE d[x]]
DictGet(d, k, default) == IF k \in DOMAIN d THEN d[k] ELSE default

\* a record of parse_registry as a dict of tagged values
RegistryDict(rec) ==
    [slug |-> Str(rec.slug), path |-> Str(rec.path), repo |-> Str(rec.repo),
     additional_paths |-> List(rec.additional_paths)]

\* the body of the loop of get_all_projects
MergeCache(proj, cache) ==
    IF cache # None /\ DOMAIN cache[1] # {}
    THEN DictUpdate(proj, DictPop(cache[1], "_cache_meta"))
    ELSE proj

\* get_all_projects
GetAllProjects ==
    LET parsed == ParseRegistry(text)
    IN  [i \in 1..Len(parsed) |->
            MergeCache(RegistryDict(parsed[i]), ReadProjectCache(parsed[i].slug))]

\* find_project_by_slug over the merged projects: Some(project) or None
FindMergedBySlug(slug) ==
    LET all == GetAllProjects
        hits == { i \in 1..Len(all) : DictGet(all[i], "slug", Str("")) = Str(slug) }
    IN  IF hits = {} THEN None
        ELSE Some(all[CHOOSE i \in hits : \A j \in hits : i <= j])

\* str.lower()
RECURSIVE Lower(_)
Lower(s) ==
    IF s = "" THEN ""
    ELSE (IF Head(s) \in Uppercase
          THEN At("abcdefghijklmnopqrstuvwxyz", Find("ABCDEFGHIJKLMNOPQRSTUVWXYZ", Head(s)))
          ELSE Head(s)) \o Lower(Tail(s))

\* q in s
Contains(s, q) ==
    \E i \in 1..(Len(s) - Len(q) + 1) : SubSeq(s, i, i + Len(q) - 1) = q

\* f"{value}" for a str value
Format(value) == value.v

\* the dict appended to results
SearchEntry(p) ==
    [slug |-> DictGet(p, "slug", Str("")),
     path |-> DictGet(p, "path", Str("")),
     repo |-> DictGet(p, "repo", Str("")),
     name |-> DictGet(p, "name", Str("")),
     summary |-> DictGet(p, "summary", Str("")),
     tags |-> DictGet(p, "tags", List(<<>>)),
     group |-> DictGet(p, "group", Str(""))]

\* the three filters of the loop: TRUE when the project is skipped
QueryFilter(p, query) ==
    /\ query # ""
    /\ ~Contains(Lower(Format(DictGet(p, "slug", Str(""))) \o " "
                        \o Format(DictGet(p, "name", Str(""))) \o " "
                        \o Format(DictGet(p, "summary", Str("")))),
                 Lower(query))
\* tags = p.get("tags", []); the test is made only when tags is a list
TagFilter(p, tag) ==
    /\ tag # ""
    /\ LET tags == DictGet(p, "tags", List(<<>>))
       IN  /\ tags.type = "list"
           /\ Lower(tag) \notin { Lower(tags.v[k]) : k \in 1..Len(tags.v) }

\* p.get("group", "").lower() raises when the value is no str
GroupRaises(p, group) == group # "" /\ DictGet(p, "group", Str("")).type # "str"

GroupFilter(p, group) ==
    /\ group # ""
    /\ Lower(DictGet(p, "group", Str("")).v) # Lower(group)

\* atlas_search_projects, the loop from project i on
RECURSIVE SearchLoop(_, _, _, _, _, _)
SearchLoop(all, i, query, tag, group, results) ==
    IF i > Len(all) THEN ReturnedValue(results)
    ELSE IF QueryFilter(all[i], query) \/ TagFilter(all[i], tag)
    THEN SearchLoop(all, i + 1, query, tag, group, results)
    ELSE IF GroupRaises(all[i], group)
    THEN [kind |-> "error", err |-> "AttributeError", value |-> results]
    ELSE IF GroupFilter(all[i], group)
    THEN SearchLoop(all, i + 1, query, tag, group, results)
    ELSE SearchLoop(all, i + 1, query, tag, group, Append(results, SearchEntry(all[i])))

\* atlas_search_projects
AtlasSearchProjects(query, tag, group) ==
    SearchLoop(GetAllProjects, 1, query, tag, group, <<>>)

----------------------------------------------------------------------------
(* Specification of get_all_projects and atlas_search_projects *)

File(lines) == [is_file |-> TRUE, lines |-> lines]

ProjectRegistries ==
    { NoText,
      File(<< "  w:", "    path: /p" >>),
      File(<< "projects:", "  w:", "    path: /p", "    repo: g",
              "    additional_paths:", "      - /q", "  d-2:", "    path: /d" >>) }

CacheFiles ==
    { NoText,
      File(<< "name: Widget", "summary: A sample", "tags: [a, B]", "group: tools" >>),
      File(<< "name: Docs", "tags:", "  - b", "group: Tools" >>),
      File(<< "name: Docs", "tags:", "group: tools" >>),
      File(<< "tags: a" >>),
      File(<< "path: /elsewhere", "_cache_meta:", "  synced: now" >>),
      File(<< "slug: other", "additional_paths: [/x]", "name: Widget" >>),
      File(<< "_cache_meta:", "  synced: now" >>),
      File(<< "# empty" >>) }

RegistrySlugs == {"w", "d-2"}

Queries == {"", "WID", "doc"}
Tags == {"", "A", "zz"}
Groups == {"", "TOOLS"}

InitProjects ==
    /\ fs = [dirs |-> FsDirs, files |-> FsFiles, links |-> NoLinks]
    /\ projects = <<>>
    /\ call = NoCall
    /\ result = NoResult
    /\ \E registry \in ProjectRegistries, cache \in [RegistrySlugs -> CacheFiles] :
            text = [is_file |-> registry.is_file, lines |-> registry.lines, cache |-> cache]
    /\ frame = NoFrame

CallGetAllProjects ==
    /\ Idle
    /\ call' = [NoCall EXCEPT !.op = "get_all_projects"]
    /\ result' = ReturnedValue(GetAllProjects)
    /\ UNCHANGED <<fs, projects, text, frame>>

CallFindProjectBySlug ==
    /\ Idle
    /\ \E slug \in RegistrySlugs \cup {"other"} :
        /\ call' = [NoCall EXCEPT !.op = "find_project_by_slug", !.slug = slug]
        /\ result' = ReturnedValue(FindMergedBySlug(slug))
        /\ UNCHANGED <<fs, projects, text, frame>>

CallAtlasSearchProjects ==
    /\ Idle
    /\ \E query \in Queries, tag \in Tags, group \in Groups :
        /\ call' = [op |-> "atlas_search_projects", query |-> query, tag |-> tag,
                    group |-> group]
        /\ result' = AtlasSearchProjects(query, tag, group)
        /\ UNCHANGED <<fs, projects, text, frame>>

NextProjects ==
    \/ CallGetAllProjects
    \/ CallFindProjectBySlug
    \/ CallAtlasSearchProjects

SpecProjects == InitProjects /\ [][NextProjects]_vars

----------------------------------------------------------------------------
(* Properties of get_all_projects and atlas_search_projects *)

Merged == call.op = "get_all_projects" /\ result.kind = "returned"

\* what the registry text alone declares
Declared == ParseRegistry(text)

KeepsRegistryFields(p, rec) ==
    \A k \in DOMAIN RegistryDict(rec) : k \in DOMAIN p /\ p[k] = RegistryDict(rec)[k]

\* C28: merging the cached metadata never changes what the registry declares:
\* every merged project keeps the slug, path, repo and additional_paths parsed
\* from the registry text, whatever keys the metadata document has, and the
\* key _cache_meta never appears in a merged project.
C28_MergeKeepsRegistryFields ==
    Merged =>
        /\ Len(result.value) = Len(Declared)
        /\ \A i \in 1..Len(result.value) :
            /\ KeepsRegistryFields(result.value[i], Declared[i])
            /\ "_cache_meta" \notin DOMAIN result.value[i]

\* C28, the part that holds: _cache_meta never appears in a merged project,
\* and a project whose metadata has none of the registry's keys keeps them.
C28_CacheMetaStripped ==
    Merged =>
        /\ Len(result.value) = Len(Declared)
        /\ \A i \in 1..Len(result.value) :
            LET cache == ReadProjectCache(Declared[i].slug)
            IN  /\ "_cache_meta" \notin DOMAIN result.value[i]
                /\ (cache = None \/ DOMAIN cache[1] \cap DOMAIN RegistryDict(Declared[i]) = {})
                        => KeepsRegistryFields(result.value[i], Declared[i])

\* C28, its consequence: find_project_by_slug finds every slug of the registry.
C28_EveryRegistrySlugFound ==
    (call.op = "find_project_by_slug" /\ result.kind = "returned"
        /\ \E i \in 1..Len(Declared) : Declared[i].slug = call.slug)
    => result.value # None

Searched == call.op = "atlas_search_projects"

TextOf(p, k) == DictGet(p, k, Str("")).v

MatchesQuery(p, query) ==
    \E k \in {"slug", "name", "summary"} : Contains(Lower(TextOf(p, k)), Lower(query))

\* the project carries the tag: one of its tags, or its only tag, is the tag
CarriesTag(p, tag) ==
    LET tags == DictGet(p, "tags", List(<<>>))
    IN  CASE tags.type = "list" -> \E k \in 1..Len(tags.v) : Lower(tags.v[k]) = Lower(tag)
          [] tags.type = "str" -> Lower(tags.v) = Lower(tag)
          [] OTHER -> FALSE

InGroup(p, group) == Lower(TextOf(p, "group")) = Lower(group)

Satisfies(p) ==
    /\ call.query # "" => MatchesQuery(p, call.query)
    /\ call.tag # "" => CarriesTag(p, call.tag)
    /\ call.group # "" => InGroup(p, call.group)

Satisfying ==
    LET hits == SelectSeq(GetAllProjects, Satisfies)
    IN  [i \in 1..Len(hits) |-> SearchEntry(hits[i])]

TagsAreLists ==
    \A i \in 1..Len(GetAllProjects) :
        DictGet(GetAllProjects[i], "tags", List(<<>>)).type = "list"

\* C26: atlas_search_projects returns exactly the projects that satisfy every
\* supplied filter, in registry order; a project that does not carry the
\* requested tag is never returned, whatever the shape of its tags value.
C26_ExactlyTheSatisfyingProjects ==
    Searched => result.kind = "returned" /\ result.value = Satisfying

\* C26, the part that holds: when every project's tags value is missing or a
\* list, the result is exactly the satisfying projects in registry order.
C26_ExactWhenTagsAreLists ==
    (Searched /\ TagsAreLists) => result.kind = "returned" /\ result.value = Satisfying

====
